---- MODULE Spec2Model ----
(***************************************************************************)
(* Model of the wiki generator's diagram selection and rendering           *)
(* (src/src/wiki/mod.rs) and of the security trace and hotspot engine      *)
(* (src/src/wiki/security_enhancements.rs).                                *)
(*                                                                         *)
(* The specifications share the variables; each leaves the others' idle:   *)
(*   SpecDiagram   - one call of build_sequence_or_flow_blocks on one      *)
(*                   file, the CFG rendering loop one node at a time;      *)
(*   SpecRerun     - two calls of build_sequence_or_flow_blocks on the     *)
(*                   same inputs, each call one step;                      *)
(*   SpecSecurity  - identify_security_traces followed by                  *)
(*                   identify_security_hotspots on one vulnerability list; *)
(*   SpecGenerator - the same under every SecurityWikiConfig, followed by  *)
(*                   generate_owasp_recommendations;                       *)
(*   SpecSite      - generate_site over analysis.files: analyze_security,  *)
(*                   then the pages one write at a time, any write failing;*)
(*   SpecBuilder   - WikiConfigBuilder setters in any order, then build.   *)
(* Text is kept as TLA+ strings; a rendered diagram is the sequence of its *)
(* lines, each line a record [k, a, b, label].                             *)
(***************************************************************************)
EXTENDS Integers, Sequences, FiniteSets, TLC

VARIABLES
    \* ---- build_sequence_or_flow_blocks ----
    file,          \* the FileInfo: [symbols |-> Seq([name, kind])]
    pc,            \* position inside build_sequence_or_flow_blocks
    cfg,           \* result of the CFG closure's build: [built, nodes]
    pos,           \* number of CFG nodes consumed by the rendering loop
    idx,           \* the loop's rendered-node counter
    flow,          \* the flowchart text built so far (sequence of lines)
    has_branch,    \* the branching signal used by the decision table
    out,           \* the returned block: [cards |-> Seq(card)]
    \* ---- identify_security_traces / identify_security_hotspots ----
    vulnerabilities,       \* security_result.vulnerabilities
    min_hotspot_severity,  \* config.min_hotspot_severity
    spc,                   \* position inside analyze_security
    traces,                \* the traces vector
    hotspots,              \* the HashMap file_key -> SecurityHotspot
    hotspot_vec,           \* the returned, sorted vector
    config,                \* the four enable_* options of SecurityWikiConfig
    owasp_rec,             \* what generate_owasp_recommendations returned (list items)
    \* ---- generate_site ----
    analysis_files,        \* analysis.files: Seq([has_functions])
    wiki_config,           \* the WikiConfig options generate_site reads
    gpc,                   \* position inside generate_site
    fi,                    \* index of the file the per-file loop is at
    security_analysis,     \* TRUE when security_analysis is Some
    page_count,            \* the page counter
    index_entries,         \* the search entries pushed so far (file indices)
    produced,              \* the artifacts written: Seq([path, ai_block])
    page_call,             \* the last call of write_file_page and what it returned
    result,                \* what generate_site returned, <<>> while it runs
    \* ---- WikiConfigBuilder ----
    builder,               \* the builder's fields
    last_set,              \* per field, the value of the last setter call (<<>> if none)
    setter_calls,          \* number of setter calls made
    built,                 \* what build returned, <<>> before it is called
    \* ---- build_sequence_or_flow_blocks called twice ----
    heuristics,            \* what the file text gives: [branching, simple_calls]
    runs                   \* the blocks returned by the calls made so far

diagramVars == <<file, pc, cfg, pos, idx, flow, has_branch, out>>
securityVars == <<vulnerabilities, min_hotspot_severity, spc, traces, hotspots, hotspot_vec,
                  config, owasp_rec>>
siteVars == <<analysis_files, wiki_config, gpc, fi, security_analysis, page_count,
              index_entries, produced, page_call, result>>
builderVars == <<builder, last_set, setter_calls, built>>
rerunVars == <<heuristics, runs>>
vars == <<file, pc, cfg, pos, idx, flow, has_branch, out,
          vulnerabilities, min_hotspot_severity, spc, traces, hotspots, hotspot_vec,
          config, owasp_rec,
          analysis_files, wiki_config, gpc, fi, security_analysis, page_count,
          index_entries, produced, page_call, result,
          builder, last_set, setter_calls, built, heuristics, runs>>

----------------------------------------------------------------------------
\* Bounds of the model

\* largest number of function symbols of a file (the guard's threshold is 20)
MaxFuncs == 21
\* largest number of nodes of a CFG (the rendering budget is 15)
MaxNodes == 17
\* largest number of matches of each of the two heuristic call patterns
MaxHeur == 1
\* files of at most this many function symbols are paired with every CFG,
\* larger files with the CFGs of at most SmallCfgNodes nodes
SmallFileFuncs == 2
SmallCfgNodes == 2
\* largest number of vulnerabilities in security_result.vulnerabilities
MaxVulns == 3
\* largest number of distinct files the vulnerabilities are located in
MaxFiles == 3
\* largest number of vulnerabilities when the four options range over all
\* their values
MaxGatedVulns == 2
\* largest number of files in analysis.files for generate_site
MaxSiteFiles == 2
\* largest number of setter calls on a WikiConfigBuilder before build
MaxSetterCalls == 3

\* the longest vulnerability list the analyzer returns to generate_site
MaxSiteVulns == 2

----------------------------------------------------------------------------
\* Text helpers

Min(a, b) == IF a < b THEN a ELSE b

\* str::contains
Contains(s, sub) ==
    \E i \in 1..(Len(s) - Len(sub) + 1) : SubSeq(s, i, i + Len(sub) - 1) = sub

\* s.chars().take(n).collect::<String>()
TakeChars(s, n) == SubSeq(s, 1, Min(n, Len(s)))

\* char::to_lowercase on the ASCII letters
LowerChar(c) ==
    LET UpperChars == "ABCDEFGHIJKLMNOPQRSTUVWXYZ"
        LowerChars == "abcdefghijklmnopqrstuvwxyz"
    IN  IF \E i \in 1..Len(UpperChars) : SubSeq(UpperChars, i, i) = c
        THEN LET i == CHOOSE j \in 1..Len(UpperChars) : SubSeq(UpperChars, j, j) = c
             IN  SubSeq(LowerChars, i, i)
        ELSE c

RECURSIVE to_lowercase(_)
to_lowercase(s) ==
    IF s = "" THEN ""
    ELSE LowerChar(SubSeq(s, 1, 1)) \o to_lowercase(SubSeq(s, 2, Len(s)))

\* str::replace(from, to) for a one-character pattern
RECURSIVE ReplaceChar(_, _, _)
ReplaceChar(s, from, to) ==
    IF s = "" THEN ""
    ELSE (IF SubSeq(s, 1, 1) = from THEN to ELSE SubSeq(s, 1, 1))
         \o ReplaceChar(SubSeq(s, 2, Len(s)), from, to)

anchorize(s) == to_lowercase(ReplaceChar(ReplaceChar(s, " ", "-"), ":", "-"))

safe_ident(s) == ReplaceChar(anchorize(s), "-", "_")

\* html_escape as the source has it: each of & < > is replaced by itself
html_escape(s) == ReplaceChar(ReplaceChar(ReplaceChar(s, "&", "&"), "<", "<"), ">", ">")

----------------------------------------------------------------------------
\* Files

BaseNames == <<"a", "b", "m", "helper", "Foo::new">>

FuncName(i) == IF i <= Len(BaseNames) THEN BaseNames[i] ELSE "f" \o ToString(i)

\* the i-th function symbol; Rust symbols have kind "fn", JS ones "function"
FuncSymbol(i) == [name |-> FuncName(i), kind |-> IF i % 3 = 0 THEN "function" ELSE "fn"]

\* a file with n function symbols, between a struct and a trait when withTypes
MkFile(n, withTypes) ==
    LET fs == [i \in 1..n |-> FuncSymbol(i)]
    IN  [symbols |-> IF withTypes
                     THEN <<[name |-> "Config", kind |-> "struct"]>> \o fs
                          \o <<[name |-> "Render", kind |-> "trait"]>>
                     ELSE fs]

Files == { MkFile(n, t) : n \in 0..MaxFuncs, t \in BOOLEAN }

\* s.kind.contains("fn") || s.kind.contains("function")
IsFunc(s) == Contains(s.kind, "fn") \/ Contains(s.kind, "function")

\* file.symbols.iter().filter(..).collect()
Funcs(f) == SelectSeq(f.symbols, IsFunc)

FuncCount(f) == Len(Funcs(f))

----------------------------------------------------------------------------
\* The control-flow graph (built by crate::control_flow, outside this source)

Other == [type |-> "Other", name |-> ""]
BranchIf == [type |-> "Branch", name |-> "if_expression"]
BranchFor == [type |-> "Branch", name |-> "for_expression"]
BranchLong == [type |-> "Branch", name |-> "conditional_expression"]
CallB == [type |-> "Call", name |-> "b"]
CallLong == [type |-> "Call", name |-> "Foo::compute_everything_at_once"]

NodeKinds == {Other, BranchIf, BranchFor, BranchLong, CallB, CallLong}
BaseKinds == {Other, BranchFor, CallB}

\* a graph of n nodes: n-1 nodes of kind b followed by one node of kind s
MkCfg(n, b, s) == [built |-> TRUE, nodes |-> [i \in 1..n |-> IF i = n THEN s ELSE b]]

\* the CFG closure returned None: unreadable file, parse error or build error
NoCfg == [built |-> FALSE, nodes |-> <<>>]

CfgsUpTo(maxn) == { MkCfg(n, b, s) : n \in 0..maxn, b \in BaseKinds, s \in NodeKinds }

\* what the closure can return for file f
CfgOutcomes(f) ==
    {NoCfg} \cup (IF FuncCount(f) <= SmallFileFuncs
                  THEN CfgsUpTo(MaxNodes) ELSE CfgsUpTo(SmallCfgNodes))

IsBranch(n) == n.type = "Branch"
IsCall(n) == n.type = "Call"

\* cfg.decision_points(): the Branch nodes of the graph
decision_points(c) == SelectSeq(c.nodes, IsBranch)

\* cfg.call_sequence(): the callee names of the Call nodes, in graph order
call_sequence(c) ==
    LET calls == SelectSeq(c.nodes, IsCall)
    IN  [i \in 1..Len(calls) |-> calls[i].name]

----------------------------------------------------------------------------
\* Rendering of the CFG-derived flowchart

\* let mut node_limit = 15
node_limit == 15

NodeId(i) == "N" \o ToString(i)

NodeLine(id, label) == [k |-> "node", a |-> id, b |-> "", label |-> label]
EdgeLine(from, to, label) == [k |-> "edge", a |-> from, b |-> to, label |-> label]

\* "  start([\"Start\"])\n  end([\"End\"])\n  start --> N0"
FlowHeader == <<NodeLine("start", "Start"), NodeLine("end", "End"), EdgeLine("start", "N0", "")>>

\* node_type.contains("for") || node_type.contains("while") || node_type.contains("loop")
IsLoopKind(node_type) ==
    Contains(node_type, "for") \/ Contains(node_type, "while") \/ Contains(node_type, "loop")

BranchShortName(node_type) ==
    IF Len(node_type) > 20 THEN TakeChars(node_type, 17) \o "..." ELSE node_type

CallShortName(function_name) ==
    IF Len(function_name) > 20 THEN "call:" \o TakeChars(function_name, 17)
    ELSE "call:" \o function_name

\* the lines one loop iteration appends for CFG node n when the counter is i
NodeLines(n, i) ==
    IF IsBranch(n) THEN
        <<NodeLine(NodeId(i), BranchShortName(n.name))>>
        \o (IF IsLoopKind(n.name) /\ i < node_limit - 1
            THEN <<EdgeLine(NodeId(i), NodeId(i), "repeat")>> ELSE <<>>)
        \o (IF i > 0 THEN <<EdgeLine(NodeId(i - 1), NodeId(i), "")>> ELSE <<>>)
    ELSE IF IsCall(n) THEN
        <<NodeLine(NodeId(i), CallShortName(n.name))>>
        \o (IF i > 0 THEN <<EdgeLine(NodeId(i - 1), NodeId(i), "")>> ELSE <<>>)
    ELSE <<>>

\* LoopContinues without .take(node_limit) and without the break
LoopContinues_uncapped(c, p, i) == p < Len(c.nodes)

\* the loop takes another node: .take(node_limit), and no break on idx >= node_limit
LoopContinues(c, p, i) == p < Min(Len(c.nodes), node_limit) /\ i < node_limit

\* the line written after the loop
FlowFooter(i) ==
    IF i > 0 THEN <<EdgeLine(NodeId(i - 1), "end", "")>> ELSE <<EdgeLine("N0", "end", "")>>

\* build_control_flow: the symbol-ordered flow
build_control_flow(f) ==
    LET n == Len(f.symbols)
        SymLines(i) ==
            <<NodeLine("F" \o ToString(i - 1), html_escape(f.symbols[i].name)),
              IF i < n THEN EdgeLine("F" \o ToString(i - 1), "F" \o ToString(i), "")
              ELSE EdgeLine("F" \o ToString(i - 1), "end", "")>>
        RECURSIVE Upto(_)
        Upto(i) == IF i = 0 THEN <<>> ELSE Upto(i - 1) \o SymLines(i)
    IN  <<NodeLine("start", "Start"), NodeLine("end", "End"), EdgeLine("start", "F0", "")>>
        \o Upto(n)

----------------------------------------------------------------------------
\* build_sequence_diagram

ParticipantLine(id) == [k |-> "participant", a |-> id, b |-> "", label |-> ""]
MessageLine(caller, callee) == [k |-> "message", a |-> caller, b |-> callee, label |-> "call"]

\* what walk_tree_for_calls can collect: one ("a","m") per `x.m()` match, then
\* one ("a","helper") per `x::helper()` match; the empty list stands for None
\* (no match, or the file is not readable at file.path)
SimpleCalls(nm, nh) ==
    [i \in 1..nm |-> <<"a", "m">>] \o [i \in 1..nh |-> <<"a", "helper">>]

SimpleCallsOutcomes == { SimpleCalls(nm, nh) : nm \in 0..MaxHeur, nh \in 0..MaxHeur }

\* calls_from_cfg yielding the callees last to first
calls_from_cfg_reversed(c) ==
    IF c.built
    THEN LET calls == call_sequence(c)
         IN  [i \in 1..Len(calls) |-> calls[Len(calls) + 1 - i]]
    ELSE <<>>

\* calls_from_cfg: the closure reads the same file again and builds the same
\* CFG; Some(calls) only for a built CFG with a non-empty call list
calls_from_cfg(c) == IF c.built THEN call_sequence(c) ELSE <<>>

\* IsFuncName accepting every name
IsFuncName_any(f, name) == TRUE

\* funcs.iter().any(|f| f.name == *name)
IsFuncName(f, name) == \E i \in 1..Len(Funcs(f)) : Funcs(f)[i].name = name

\* build_sequence_diagram trying the heuristic call sites before the CFG calls
build_sequence_diagram_heuristicFirst(f, c, simple_calls) ==
    LET funcs == Funcs(f)
        participants == [i \in 1..Len(funcs) |-> ParticipantLine(safe_ident(funcs[i].name))]
        calls == calls_from_cfg(c)
        KnownPair(p) == IsFuncName(f, p[1]) /\ IsFuncName(f, p[2])
        kept == SelectSeq(simple_calls, KnownPair)
        messages ==
            IF simple_calls # <<>> THEN
                [i \in 1..Len(kept) |-> MessageLine(safe_ident(kept[i][1]), safe_ident(kept[i][2]))]
            ELSE IF calls # <<>> /\ funcs # <<>> THEN
                [i \in 1..Len(calls) |->
                    MessageLine(safe_ident(funcs[1].name), safe_ident(calls[i]))]
            ELSE IF Len(funcs) >= 2 THEN
                [i \in 1..(Len(funcs) - 1) |->
                    MessageLine(safe_ident(funcs[i].name), safe_ident(funcs[i + 1].name))]
            ELSE <<>>
    IN  participants \o messages

build_sequence_diagram(f, c, simple_calls) ==
    LET funcs == Funcs(f)
        participants == [i \in 1..Len(funcs) |-> ParticipantLine(safe_ident(funcs[i].name))]
        calls == calls_from_cfg(c)
        KnownPair(p) == IsFuncName(f, p[1]) /\ IsFuncName(f, p[2])
        kept == SelectSeq(simple_calls, KnownPair)
        messages ==
            IF calls # <<>> THEN
                IF funcs # <<>>
                THEN [i \in 1..Len(calls) |->
                        MessageLine(safe_ident(funcs[1].name), safe_ident(calls[i]))]
                ELSE <<>>
            ELSE IF simple_calls # <<>> THEN
                [i \in 1..Len(kept) |-> MessageLine(safe_ident(kept[i][1]), safe_ident(kept[i][2]))]
            ELSE IF Len(funcs) >= 2 THEN
                [i \in 1..(Len(funcs) - 1) |->
                    MessageLine(safe_ident(funcs[i].name), safe_ident(funcs[i + 1].name))]
            ELSE <<>>
    IN  participants \o messages

----------------------------------------------------------------------------
\* build_sequence_or_flow_blocks

\* if func_count > 20
LargeFileThreshold == 20

\* IsLargeFile with >= in place of >
IsLargeFile_inclusive(f) == FuncCount(f) >= LargeFileThreshold

\* the guard: func_count > 20
IsLargeFile(f) == FuncCount(f) > LargeFileThreshold

\* .filter(|s| s.kind.contains("fn")).take(10)
SummaryShown == 10

IsFnKind(s) == Contains(s.kind, "fn")

ItemLine(name, kind) == [k |-> "item", a |-> name, b |-> kind, label |-> ""]

\* write_file_page: one "class X {}" line per symbol, ':' replaced by '_'
ClassLines(f) ==
    [i \in 1..Len(f.symbols) |->
        [k |-> "class", a |-> ReplaceChar(f.symbols[i].name, ":", "_"), b |-> "", label |-> ""]]

Card(title, mermaid, body) == [title |-> title, mermaid |-> mermaid, body |-> body]

SummaryBlock(f) ==
    LET fns == SelectSeq(f.symbols, IsFnKind)
        shown == SubSeq(fns, 1, Min(SummaryShown, Len(fns)))
    IN  <<Card("Module Overview", "",
               [i \in 1..Len(shown) |-> ItemLine(html_escape(shown[i].name), shown[i].kind)])>>

\* SelectBlocks with the (true, true) arm emitting the flowchart only
SelectBlocks_flowOnly(f, c, fl, hb, simple_calls) ==
    LET multi_funcs == FuncCount(f) >= 2
        flowText == IF fl # <<>> THEN fl ELSE build_control_flow(f)
        flowCard == Card("Control Flow", "flowchart TB", flowText)
        seqCard == Card("Call Sequence", "sequenceDiagram", build_sequence_diagram(f, c, simple_calls))
    IN  IF hb THEN <<flowCard>>
        ELSE IF multi_funcs THEN <<seqCard>>
        ELSE <<Card("Class/Module Diagram", "classDiagram", ClassLines(f))>>

\* match (has_branch, multi_funcs); fl is flow_opt (the empty text stands for None)
SelectBlocks(f, c, fl, hb, simple_calls) ==
    LET multi_funcs == FuncCount(f) >= 2
        flowText == IF fl # <<>> THEN fl ELSE build_control_flow(f)
        flowCard == Card("Control Flow", "flowchart TB", flowText)
        seqCard == Card("Call Sequence", "sequenceDiagram", build_sequence_diagram(f, c, simple_calls))
    IN  IF hb /\ multi_funcs THEN <<flowCard, seqCard>>
        ELSE IF hb THEN <<flowCard>>
        ELSE IF multi_funcs THEN <<seqCard>>
        ELSE <<Card("Class/Module Diagram", "classDiagram", ClassLines(f))>>

\* the guard at the head of the function
Guard ==
    /\ pc = "start"
    /\ IF IsLargeFile(file)
       THEN /\ out' = SummaryBlock(file)
            /\ pc' = "done"
       ELSE /\ pc' = "cfg"
            /\ UNCHANGED out
    /\ UNCHANGED <<file, cfg, pos, idx, flow, has_branch>>
    /\ UNCHANGED <<securityVars, siteVars, builderVars, rerunVars>>

\* the closure reads and parses the file and builds its CFG
BuildCfg ==
    /\ pc = "cfg"
    /\ \E c \in CfgOutcomes(file) :
        /\ cfg' = c
        /\ IF c.built
           THEN pc' = "render" /\ flow' = FlowHeader
           ELSE pc' = "select" /\ flow' = <<>>
    /\ pos' = 0
    /\ idx' = 0
    /\ UNCHANGED <<file, has_branch, out>>
    /\ UNCHANGED <<securityVars, siteVars, builderVars, rerunVars>>

\* one iteration of the loop over the CFG nodes
RenderNode ==
    /\ pc = "render"
    /\ LoopContinues(cfg, pos, idx)
    /\ LET n == cfg.nodes[pos + 1]
       IN  /\ flow' = flow \o NodeLines(n, idx)
           /\ idx' = IF IsBranch(n) \/ IsCall(n) THEN idx + 1 ELSE idx
    /\ pos' = pos + 1
    /\ UNCHANGED <<file, pc, cfg, has_branch, out>>
    /\ UNCHANGED <<securityVars, siteVars, builderVars, rerunVars>>

\* the loop is over: the closing edge is written
RenderEnd ==
    /\ pc = "render"
    /\ ~LoopContinues(cfg, pos, idx)
    /\ flow' = flow \o FlowFooter(idx)
    /\ pc' = "select"
    /\ UNCHANGED <<file, cfg, pos, idx, has_branch, out>>
    /\ UNCHANGED <<securityVars, siteVars, builderVars, rerunVars>>

\* has_branch, multi_funcs and the match on them; heur is what
\* file_has_branching returns, sc what the heuristic call scan returns
Select ==
    /\ pc = "select"
    /\ \E heur \in BOOLEAN, sc \in SimpleCallsOutcomes :
        LET hb == IF cfg.built THEN decision_points(cfg) # <<>> ELSE heur
        IN  /\ has_branch' = hb
            /\ out' = SelectBlocks(file, cfg, flow, hb, sc)
    /\ pc' = "done"
    /\ UNCHANGED <<file, cfg, pos, idx, flow>>
    /\ UNCHANGED <<securityVars, siteVars, builderVars, rerunVars>>

\* the boolean fields of WikiConfigBuilder
BoolFields ==
    {"include_api_docs", "include_examples", "ai_enabled", "ai_use_mock",
     "enhanced_ai_enabled", "function_enhancement_enabled", "security_insights_enabled",
     "refactoring_hints_enabled", "diagram_annotations_enabled", "performance_analysis_enabled"}

\* the Option fields of WikiConfigBuilder
OptionFields == {"site_title", "output_dir", "ai_config_path", "ai_provider"}

\* WikiConfigBuilder::new(), i.e. Default: None (the empty sequence) and false
DefaultBuilder == [f \in BoolFields \cup OptionFields |-> IF f \in BoolFields THEN FALSE ELSE <<>>]

RerunIdle ==
    /\ heuristics = [branching |-> FALSE, simple_calls |-> <<>>]
    /\ runs = <<>>

BuilderIdle ==
    /\ builder = DefaultBuilder
    /\ last_set = [f \in BoolFields \cup OptionFields |-> <<>>]
    /\ setter_calls = 0
    /\ built = <<>>

SiteIdle ==
    /\ analysis_files = <<>>
    /\ wiki_config = [security_insights_enabled |-> FALSE, ai_enabled |-> FALSE]
    /\ gpc = "idle"
    /\ fi = 0
    /\ security_analysis = FALSE
    /\ page_count = 0
    /\ index_entries = <<>>
    /\ produced = <<>>
    /\ page_call = <<>>
    /\ result = <<>>

\* SecurityWikiConfig::default(), the four enable_* options
DefaultConfig ==
    [enable_trace_analysis |-> TRUE, enable_propagation_diagrams |-> TRUE,
     enable_owasp_recommendations |-> TRUE, enable_hotspot_visualization |-> TRUE]

SecurityIdle ==
    /\ vulnerabilities = <<>>
    /\ min_hotspot_severity = "Medium"
    /\ spc = "idle"
    /\ traces = <<>>
    /\ hotspots = <<>>
    /\ hotspot_vec = <<>>
    /\ config = DefaultConfig
    /\ owasp_rec = <<>>

InitDiagram ==
    /\ file \in Files
    /\ pc = "start"
    /\ cfg = NoCfg
    /\ pos = 0
    /\ idx = 0
    /\ flow = <<>>
    /\ has_branch = FALSE
    /\ out = <<>>
    /\ SecurityIdle
    /\ SiteIdle
    /\ BuilderIdle
    /\ RerunIdle

NextDiagram == Guard \/ BuildCfg \/ RenderNode \/ RenderEnd \/ Select

SpecDiagram == InitDiagram /\ [][NextDiagram]_vars

----------------------------------------------------------------------------
\* SecuritySeverity and its order

Severities == {"Info", "Low", "Medium", "High", "Critical"}

\* the score each side gets in Ord::cmp
SeverityOrd(s) ==
    CASE s = "Info" -> 0
      [] s = "Low" -> 1
      [] s = "Medium" -> 2
      [] s = "High" -> 3
      [] s = "Critical" -> 4

\* a >= b through PartialOrd / Ord
SeverityGe(a, b) == SeverityOrd(a) >= SeverityOrd(b)

\* severity_score with Critical weighing what High does
severity_score_flat(s) ==
    CASE s = "Critical" -> 7
      [] s = "High" -> 7
      [] s = "Medium" -> 5
      [] s = "Low" -> 3
      [] s = "Info" -> 1

\* severity_score (the f64 weights are whole numbers)
severity_score(s) ==
    CASE s = "Critical" -> 10
      [] s = "High" -> 7
      [] s = "Medium" -> 5
      [] s = "Low" -> 3
      [] s = "Info" -> 1

----------------------------------------------------------------------------
\* Vulnerabilities (found by crate::advanced_security, outside this source)

\* a path is kept as the string to_string_lossy gives for it
Paths == <<"src/lib.rs", "src/db/query.rs", "src/auth.rs", "src/api/mod.rs">>

\* function, OWASP category and lines of a finding; function is <<>> for None
Shapes == <<
    [function |-> <<>>, owasp_category |-> "SecurityMisconfiguration",
     start_line |-> 1, end_line |-> 4, column |-> 0],
    [function |-> <<"load_user">>, owasp_category |-> "Injection",
     start_line |-> 12, end_line |-> 20, column |-> 4],
    [function |-> <<"AdminHandler">>, owasp_category |-> "BrokenAccessControl",
     start_line |-> 30, end_line |-> 42, column |-> 8],
    [function |-> <<"escape_auth_token">>, owasp_category |-> "CryptographicFailures",
     start_line |-> 50, end_line |-> 51, column |-> 2],
    [function |-> <<"request_handler">>, owasp_category |-> "InsecureDesign",
     start_line |-> 7, end_line |-> 9, column |-> 1] >>

RECURSIVE SumOrd(_)
SumOrd(sevs) == IF sevs = <<>> THEN 0 ELSE SeverityOrd(Head(sevs)) + SumOrd(Tail(sevs))

\* the list with severities sevs and files fidx (indices into Paths); the shape
\* of the i-th finding rotates with i and the severities, so that every shape
\* meets every severity
MkVulnerabilities(sevs, fidx) ==
    [i \in 1..Len(sevs) |->
        LET sh == Shapes[((i + SumOrd(sevs)) % Len(Shapes)) + 1]
        IN  [id |-> "V" \o ToString(i),
             title |-> "Finding " \o ToString(i),
             severity |-> sevs[i],
             owasp_category |-> sh.owasp_category,
             location |-> [file |-> Paths[fidx[i]], function |-> sh.function,
                           start_line |-> sh.start_line, end_line |-> sh.end_line,
                           column |-> sh.column]]]

\* the first finding is in file 1 and each next one in a file already seen or
\* in the next new one (the code compares file keys for equality only)
FilePatterns(n) ==
    { f \in [1..n -> 1..MaxFiles] :
        \A i \in 1..n : \A v \in 2..MaxFiles :
            f[i] = v => \E j \in 1..(i - 1) : f[j] = v - 1 }

VulnerabilityLists ==
    UNION { { MkVulnerabilities(sevs, fidx) : sevs \in [1..n -> Severities], fidx \in FilePatterns(n) }
            : n \in 0..MaxVulns }

----------------------------------------------------------------------------
\* identify_security_traces

convert_vulnerability_location(location) ==
    [file |-> location.file, function |-> location.function,
     start_line |-> location.start_line, end_line |-> location.end_line,
     column |-> location.column]

\* PathSites with the downstream site pushed ahead of the function's own
PathSites_downstreamFirst(lower, call_site, downstream) ==
    IF Contains(lower, "handler") THEN <<downstream, call_site>> ELSE <<call_site>>

\* path.push(call_site); if the name contains "handler", path.push(downstream)
PathSites(lower, call_site, downstream) ==
    IF Contains(lower, "handler") THEN <<call_site, downstream>> ELSE <<call_site>>

\* trace_propagation_path matching the name as written, without to_lowercase
trace_propagation_path_caseSensitive(location) ==
    IF location.function = <<>> THEN <<>>
    ELSE
        LET function_name == location.function[1]
            call_site ==
                [function_name |-> function_name,
                 location |-> [file |-> location.file, function |-> <<function_name>>,
                               start_line |-> location.start_line,
                               end_line |-> location.end_line,
                               column |-> location.column],
                 context |-> [has_user_input |-> TRUE,
                              requires_auth |-> Contains(function_name, "admin") \/ Contains(function_name, "auth"),
                              is_sanitized |-> Contains(function_name, "sanitize") \/ Contains(function_name, "escape"),
                              trust_boundary |-> "External"]]
            downstream ==
                [function_name |-> "process_data",
                 location |-> [file |-> location.file, function |-> <<"process_data">>,
                               start_line |-> location.start_line + 10,
                               end_line |-> location.end_line + 15,
                               column |-> 0],
                 context |-> [has_user_input |-> FALSE, requires_auth |-> FALSE,
                              is_sanitized |-> FALSE, trust_boundary |-> "Internal"]]
        IN  PathSites(function_name, call_site, downstream)

trace_propagation_path(location) ==
    IF location.function = <<>> THEN <<>>
    ELSE
        LET function_name == location.function[1]
            lower == to_lowercase(function_name)
            call_site ==
                [function_name |-> function_name,
                 location |-> [file |-> location.file, function |-> <<function_name>>,
                               start_line |-> location.start_line,
                               end_line |-> location.end_line,
                               column |-> location.column],
                 context |-> [has_user_input |-> TRUE,
                              requires_auth |-> Contains(lower, "admin") \/ Contains(lower, "auth"),
                              is_sanitized |-> Contains(lower, "sanitize") \/ Contains(lower, "escape"),
                              trust_boundary |-> "External"]]
            downstream ==
                [function_name |-> "process_data",
                 location |-> [file |-> location.file, function |-> <<"process_data">>,
                               start_line |-> location.start_line + 10,
                               end_line |-> location.end_line + 15,
                               column |-> 0],
                 context |-> [has_user_input |-> FALSE, requires_auth |-> FALSE,
                              is_sanitized |-> FALSE, trust_boundary |-> "Internal"]]
        IN  PathSites(lower, call_site, downstream)

\* initial_score with the hotspot table's weight for Critical
initial_score_ten(severity) ==
    CASE severity = "Critical" -> 10
      [] severity = "High" -> 7
      [] severity = "Medium" -> 5
      [] severity = "Low" -> 3
      [] severity = "Info" -> 1

\* initial_score
initial_score(severity) ==
    CASE severity = "Critical" -> 9
      [] severity = "High" -> 7
      [] severity = "Medium" -> 5
      [] severity = "Low" -> 3
      [] severity = "Info" -> 1

\* for i in 1..=3
PropagationSteps == 3

\* scores are kept in thousandths: 0.7^i * 1000 = 7^i * 10^(3-i), i = 0..3
DecayMilli(i) == (7 ^ i) * (10 ^ (PropagationSteps - i))

\* calculate_impact_chain without the propagated impacts
calculate_impact_chain_initialOnly(vuln) ==
    <<[confidentiality |-> CASE vuln.severity = "Critical" -> "Critical"
                             [] vuln.severity = "High" -> "High"
                             [] vuln.severity = "Medium" -> "Medium"
                             [] OTHER -> "Low",
       integrity |-> "Medium",
       availability |-> "Low",
       score |-> initial_score(vuln.severity) * DecayMilli(0)]>>

calculate_impact_chain(vuln) ==
    LET initial_impact ==
            [confidentiality |-> CASE vuln.severity = "Critical" -> "Critical"
                                   [] vuln.severity = "High" -> "High"
                                   [] vuln.severity = "Medium" -> "Medium"
                                   [] OTHER -> "Low",
             integrity |-> "Medium",
             availability |-> "Low",
             score |-> initial_score(vuln.severity) * DecayMilli(0)]
        propagated_impact(i) ==
            [confidentiality |-> CASE vuln.severity = "Critical" -> "High"
                                   [] vuln.severity = "High" -> "Medium"
                                   [] OTHER -> "Low",
             integrity |-> "Low",
             availability |-> "Low",
             score |-> initial_score(vuln.severity) * DecayMilli(i)]
    IN  <<initial_impact>> \o [i \in 1..PropagationSteps |-> propagated_impact(i)]

\* NeedsTesting with the trace threshold (Medium) in place of High
NeedsTesting_medium(vuln) == SeverityGe(vuln.severity, "Medium")

\* if vuln.severity >= SecuritySeverity::High
NeedsTesting(vuln) == SeverityGe(vuln.severity, "High")

generate_mitigations(vuln) ==
    (CASE vuln.owasp_category = "Injection" ->
            <<"Use parameterized queries or stored procedures",
              "Validate and sanitize all user inputs",
              "Use an ORM or query builder with built-in protection">>
       [] vuln.owasp_category = "BrokenAccessControl" ->
            <<"Implement proper authorization checks",
              "Use role-based access control (RBAC)",
              "Follow principle of least privilege">>
       [] vuln.owasp_category = "CryptographicFailures" ->
            <<"Use strong encryption algorithms (AES-256)",
              "Store encryption keys securely",
              "Implement key rotation policies">>
       [] OTHER ->
            <<"Review and fix security weakness",
              "Follow secure coding best practices">>)
    \o (IF NeedsTesting(vuln)
        THEN <<"Conduct thorough security testing", "Implement monitoring and alerting">>
        ELSE <<>>)

\* IsTraced with the threshold its comment names ("only trace high-severity")
IsTraced_high(vuln) == SeverityGe(vuln.severity, "High")

\* if vuln.severity >= SecuritySeverity::Medium
IsTraced(vuln) == SeverityGe(vuln.severity, "Medium")

MkTrace(vuln) ==
    [id |-> "trace_" \o vuln.id,
     source |-> [id |-> vuln.id, title |-> vuln.title, severity |-> vuln.severity,
                 owasp_category |-> vuln.owasp_category,
                 location |-> convert_vulnerability_location(vuln.location)],
     propagation_path |-> trace_propagation_path(vuln.location),
     impact_chain |-> calculate_impact_chain(vuln),
     confidence |-> "Medium",
     mitigations |-> generate_mitigations(vuln)]

\* the loop of identify_security_traces over vs
RECURSIVE identify_security_traces(_)
identify_security_traces(vs) ==
    IF vs = <<>> THEN <<>>
    ELSE LET rest == identify_security_traces(SubSeq(vs, 1, Len(vs) - 1))
             vuln == vs[Len(vs)]
         IN  IF IsTraced(vuln) THEN Append(rest, MkTrace(vuln)) ELSE rest

----------------------------------------------------------------------------
\* generate_trace_diagram

\* a line of the trace diagram; score is the number printed after "Impact: "
\* with one decimal, kept in thousandths (0 on the lines that print none)
TraceLine(k, a, b, label, score) == [k |-> k, a |-> a, b |-> b, label |-> label, score |-> score]

\* the indices (from 0) at which the function reads trace.impact_chain
ImpactReads(trace) ==
    {0} \cup { i + 1 : i \in { j \in 0..(Len(trace.propagation_path) - 1) :
                                j < Len(trace.impact_chain) - 1 } }

\* the four lines written for the i-th call site (i from 0)
SiteLines(trace, i) ==
    LET node_id == "C" \o ToString(i)
        call_site == trace.propagation_path[i + 1]
    IN  <<TraceLine("node", node_id, "", call_site.function_name, 0),
          TraceLine("edge", IF i = 0 THEN "B" ELSE "C" \o ToString(i - 1), node_id, "", 0)>>
        \o (IF i < Len(trace.impact_chain) - 1
            THEN <<TraceLine("node", "D" \o ToString(i), "", "Impact", trace.impact_chain[i + 2].score),
                   TraceLine("edge", node_id, "D" \o ToString(i), "", 0)>>
            ELSE <<>>)

\* an index out of bounds is a panic; otherwise the lines of the diagram
generate_trace_diagram(trace) ==
    IF \E r \in ImpactReads(trace) : r >= Len(trace.impact_chain)
    THEN [panicked |-> TRUE, lines |-> <<>>]
    ELSE LET RECURSIVE Sites(_)
             Sites(n) == IF n = 0 THEN <<>> ELSE Sites(n - 1) \o SiteLines(trace, n - 1)
         IN  [panicked |-> FALSE,
              lines |-> <<TraceLine("graph", "TD", "", "", 0),
                          TraceLine("node", "A", "", trace.source.title, 0),
                          TraceLine("edge_node", "A", "B", "Impact", trace.impact_chain[1].score)>>
                        \o Sites(Len(trace.propagation_path))]

----------------------------------------------------------------------------
\* identify_security_hotspots

\* hotspots.entry(file_key).or_insert_with(..)
NewHotspot(vuln) ==
    [location |-> convert_vulnerability_location(vuln.location),
     severity |-> "Info",
     vulnerability_count |-> 0,
     risk_score |-> 0,
     description |-> "Security hotspot with multiple vulnerabilities"]

\* Qualifies with > in place of >=
Qualifies_strict(vuln, min_sev) == SeverityOrd(vuln.severity) > SeverityOrd(min_sev)

\* if vuln.severity >= self.config.min_hotspot_severity
Qualifies(vuln, min_sev) == SeverityGe(vuln.severity, min_sev)

\* UpdateHotspot adding the impact table's weight (Critical 9) to the score
UpdateHotspot_impactWeight(h, vuln) ==
    [h EXCEPT !.vulnerability_count = @ + 1,
              !.risk_score = @ + initial_score(vuln.severity),
              !.severity = IF severity_score(vuln.severity) > severity_score(h.severity)
                           THEN vuln.severity ELSE @]

\* UpdateHotspot taking the severity of the last vulnerability seen
UpdateHotspot_lastSeverity(h, vuln) ==
    [h EXCEPT !.vulnerability_count = @ + 1,
              !.risk_score = @ + severity_score(vuln.severity),
              !.severity = vuln.severity]

\* UpdateHotspot keeping the severity of the first vulnerability seen
UpdateHotspot_firstSeverity(h, vuln) ==
    [h EXCEPT !.vulnerability_count = @ + 1,
              !.risk_score = @ + severity_score(vuln.severity),
              !.severity = IF h.vulnerability_count = 0 THEN vuln.severity ELSE @]

\* the hotspot after vuln has been added to it
UpdateHotspot(h, vuln) ==
    [h EXCEPT !.vulnerability_count = @ + 1,
              !.risk_score = @ + severity_score(vuln.severity),
              !.severity = IF severity_score(vuln.severity) > severity_score(h.severity)
                           THEN vuln.severity ELSE @]

\* one iteration of the grouping loop on the map m
HotspotStep(m, vuln, min_sev) ==
    IF Qualifies(vuln, min_sev)
    THEN LET file_key == vuln.location.file
             h == IF file_key \in DOMAIN m THEN m[file_key] ELSE NewHotspot(vuln)
         IN  [k \in (DOMAIN m) \cup {file_key} |->
                 IF k = file_key THEN UpdateHotspot(h, vuln) ELSE m[k]]
    ELSE m

\* the grouping loop over vs, from the empty map
RECURSIVE GroupHotspots(_, _)
GroupHotspots(vs, min_sev) ==
    IF vs = <<>> THEN <<>>
    ELSE HotspotStep(GroupHotspots(SubSeq(vs, 1, Len(vs) - 1), min_sev), vs[Len(vs)], min_sev)

\* Outranks with the operands of the comparison exchanged (ascending sort)
Outranks_ascending(a, b) == a.risk_score < b.risk_score

\* sort_by(|a, b| b.risk_score.partial_cmp(&a.risk_score)): the comparison is
\* Less, and a is moved in front of b, exactly when b's score is smaller
Outranks(a, b) == b.risk_score < a.risk_score

\* stable insertion of h into the sorted vector v
RECURSIVE InsertSorted(_, _)
InsertSorted(v, h) ==
    IF v = <<>> THEN <<h>>
    ELSE IF Outranks(h, v[Len(v)])
         THEN Append(InsertSorted(SubSeq(v, 1, Len(v) - 1), h), v[Len(v)])
         ELSE Append(v, h)

\* the stable sort of v
RECURSIVE sort_by_risk(_)
sort_by_risk(v) ==
    IF v = <<>> THEN <<>>
    ELSE InsertSorted(sort_by_risk(SubSeq(v, 1, Len(v) - 1)), v[Len(v)])

\* the orders in which HashMap::into_iter can yield the values of m
IterationOrders(m) ==
    LET keys == DOMAIN m
        n == Cardinality(keys)
    IN  { [i \in 1..n |-> m[o[i]]] :
            o \in { q \in [1..n -> keys] : \A i, j \in 1..n : q[i] = q[j] => i = j } }

\* identify_security_hotspots returning the vector as collected, unsorted
identify_security_hotspots_unranked(vs, min_sev) == IterationOrders(GroupHotspots(vs, min_sev))

\* identify_security_hotspots as one call: the vectors it can return for vs
identify_security_hotspots(vs, min_sev) ==
    { sort_by_risk(order) : order \in IterationOrders(GroupHotspots(vs, min_sev)) }

----------------------------------------------------------------------------
\* analyze_security: the traces, then the hotspots

\* identify_security_traces
IdentifyTraces ==
    /\ spc = "traces"
    /\ traces' = identify_security_traces(vulnerabilities)
    /\ spc' = "hotspots"
    /\ UNCHANGED <<vulnerabilities, min_hotspot_severity, hotspots, hotspot_vec, config, owasp_rec>>
    /\ UNCHANGED <<diagramVars, siteVars, builderVars, rerunVars>>

\* identify_security_hotspots: the grouping loop
GroupByFile ==
    /\ spc = "hotspots"
    /\ hotspots' = GroupHotspots(vulnerabilities, min_hotspot_severity)
    /\ spc' = "sort"
    /\ UNCHANGED <<vulnerabilities, min_hotspot_severity, traces, hotspot_vec, config, owasp_rec>>
    /\ UNCHANGED <<diagramVars, siteVars, builderVars, rerunVars>>

\* identify_security_hotspots: into_iter().collect(), then sort_by
SortHotspots ==
    /\ spc = "sort"
    /\ \E order \in IterationOrders(hotspots) : hotspot_vec' = sort_by_risk(order)
    /\ spc' = "done"
    /\ UNCHANGED <<vulnerabilities, min_hotspot_severity, traces, hotspots, config, owasp_rec>>
    /\ UNCHANGED <<diagramVars, siteVars, builderVars, rerunVars>>

DiagramIdle ==
    /\ file = [symbols |-> <<>>]
    /\ pc = "idle"
    /\ cfg = NoCfg
    /\ pos = 0
    /\ idx = 0
    /\ flow = <<>>
    /\ has_branch = FALSE
    /\ out = <<>>

InitSecurity ==
    /\ vulnerabilities \in VulnerabilityLists
    /\ min_hotspot_severity \in Severities
    /\ spc = "traces"
    /\ traces = <<>>
    /\ hotspots = <<>>
    /\ hotspot_vec = <<>>
    /\ config = DefaultConfig
    /\ owasp_rec = <<>>
    /\ DiagramIdle
    /\ SiteIdle
    /\ BuilderIdle
    /\ RerunIdle

NextSecurity == IdentifyTraces \/ GroupByFile \/ SortHotspots

SpecSecurity == InitSecurity /\ [][NextSecurity]_vars

----------------------------------------------------------------------------
\* generate_owasp_recommendations, and the generator under any configuration

\* the file texts the recommendations are computed for
Contents == {"", "fn main() {}", "Admin login", "SELECT * from Config"}

\* the keywords of a category and its name
OwaspChecks == <<
    [words |-> {"admin", "access", "auth", "authorize"}, category |-> "A01:2021 - Broken Access Control"],
    [words |-> {"encrypt", "decrypt", "password", "secret"}, category |-> "A02:2021 - Cryptographic Failures"],
    [words |-> {"select", "insert", "update", "delete", "exec", "system"}, category |-> "A03:2021 - Injection"],
    [words |-> {"random", "token", "session"}, category |-> "A04:2021 - Insecure Design"],
    [words |-> {"debug", "config", "environment"}, category |-> "A05:2021 - Security Misconfiguration"] >>

\* the categories whose keywords the lower-cased content contains, in order
analyze_file_owasp_categories(content) ==
    LET content_lower == to_lowercase(content)
        hit == SelectSeq(OwaspChecks, LAMBDA c : \E w \in c.words : Contains(content_lower, w))
    IN  [i \in 1..Len(hit) |-> hit[i].category]

get_category_recommendations(category) ==
    CASE category = "A01:2021 - Broken Access Control" ->
            <<"Implement proper authorization checks before sensitive operations",
              "Use role-based access control (RBAC)",
              "Apply the principle of least privilege",
              "Implement proper session management">>
      [] category = "A02:2021 - Cryptographic Failures" ->
            <<"Use strong encryption algorithms and key sizes",
              "Store encryption keys securely",
              "Implement proper key management and rotation",
              "Use secure random number generators">>
      [] category = "A03:2021 - Injection" ->
            <<"Use parameterized queries or prepared statements",
              "Validate and sanitize all user inputs",
              "Use an ORM with built-in injection protection",
              "Implement content security policies">>
      [] category = "A04:2021 - Insecure Design" ->
            <<"Follow secure design principles from the start",
              "Implement threat modeling",
              "Use secure defaults and fail-safe behavior",
              "Regular security reviews of design decisions">>
      [] category = "A05:2021 - Security Misconfiguration" ->
            <<"Secure default configurations",
              "Regular configuration reviews",
              "Environment-specific configurations",
              "Automated configuration validation">>
      [] OTHER -> <<"Review and apply security best practices">>

\* the <li> items of the card, one per category and recommendation; the
\* empty list stands for the empty string
RECURSIVE RecommendationItems(_)
RecommendationItems(categories) ==
    IF categories = <<>> THEN <<>>
    ELSE LET category == Head(categories)
             recs == get_category_recommendations(category)
         IN  [i \in 1..Len(recs) |-> [category |-> category, rec |-> recs[i]]]
             \o RecommendationItems(Tail(categories))

generate_owasp_recommendations(content) ==
    RecommendationItems(analyze_file_owasp_categories(content))

\* what generate_owasp_recommendations can return on the file texts
OwaspOutcomes == { generate_owasp_recommendations(c) : c \in Contents }

\* a call of generate_owasp_recommendations on the generator
GenerateOwasp ==
    /\ spc = "done"
    /\ \E rec \in OwaspOutcomes : owasp_rec' = rec
    /\ spc' = "recommended"
    /\ UNCHANGED <<vulnerabilities, min_hotspot_severity, traces, hotspots, hotspot_vec, config>>
    /\ UNCHANGED <<diagramVars, siteVars, builderVars, rerunVars>>

\* the values a caller of new_with_config can give the four options
Configs ==
    [enable_trace_analysis : BOOLEAN, enable_propagation_diagrams : BOOLEAN,
     enable_owasp_recommendations : BOOLEAN, enable_hotspot_visualization : BOOLEAN]

GatedLists ==
    UNION { { MkVulnerabilities(sevs, fidx) : sevs \in [1..n -> Severities], fidx \in FilePatterns(n) }
            : n \in 0..MaxGatedVulns }

InitGenerator ==
    /\ vulnerabilities \in GatedLists
    /\ min_hotspot_severity \in Severities
    /\ config \in Configs
    /\ spc = "traces"
    /\ traces = <<>>
    /\ hotspots = <<>>
    /\ hotspot_vec = <<>>
    /\ owasp_rec = <<>>
    /\ DiagramIdle
    /\ SiteIdle
    /\ BuilderIdle
    /\ RerunIdle

NextGenerator == IdentifyTraces \/ GroupByFile \/ SortHotspots \/ GenerateOwasp

SpecGenerator == InitGenerator /\ [][NextGenerator]_vars

----------------------------------------------------------------------------
\* generate_site: the batch over analysis.files. Every write can fail (an
\* fs::write or create_dir_all error); the per-file security block is built
\* from the analysis made before the loop and is not a step of its own.

SiteFiles == UNION { [1..n -> [has_functions : BOOLEAN]] : n \in 0..MaxSiteFiles }

WikiConfigs == [security_insights_enabled : BOOLEAN, ai_enabled : BOOLEAN]

\* a written file: its path, the AI card of a file page, the trace diagrams of
\* the security overview
Artifact(path, ai_block) == [path |-> path, ai_block |-> ai_block, diagrams |-> <<>>]

\* write_security_overview_page: one trace diagram per security trace
SecurityOverview(ts) ==
    [path |-> "security.html", ai_block |-> <<>>,
     diagrams |-> [t \in 1..Len(ts) |-> generate_trace_diagram(ts[t])]]

\* pages.join(format!("{}.html", safe_name)) for the i-th file
PagePath(i) == "pages/F" \o ToString(i) \o ".html"

\* pages.join(format!("{}_usage.html", ..))
UsagePath(i) == "pages/F" \o ToString(i) \o "_usage.html"

\* the fallible steps of generate_file_ai_insights_sync, by the prefix of the
\* error they map to: Runtime::new, builder.build, and the four requests
AiSteps == <<"tokio", "ai build", "ai", "ai", "ai", "ai">>

\* fail_at is the first step that fails, 0 when none does; each `?` returns
\* the error at once, otherwise the four sections are the html
generate_file_ai_insights_sync(fail_at) ==
    IF fail_at \in 1..Len(AiSteps)
    THEN [ok |-> FALSE, error |-> AiSteps[fail_at], html |-> <<>>]
    ELSE [ok |-> TRUE, error |-> "",
          html |-> <<"Module Overview", "Function Docs", "Refactoring Suggestions", "Security Insights">>]

\* the card of unwrap_or_else
AiFailedCard == <<"AI generation failed.">>

\* write_file_page with the AI error propagated by `?` in place of unwrap_or_else
write_file_page_propagating(i, ai_enabled, fail_at, fs_ok) ==
    LET ai == generate_file_ai_insights_sync(fail_at)
    IN  IF ai_enabled /\ ~ai.ok THEN [ok |-> FALSE, written |-> <<>>]
        ELSE [ok |-> fs_ok,
              written |-> IF fs_ok
                          THEN <<Artifact(PagePath(i), IF ai_enabled THEN ai.html ELSE <<>>)>>
                          ELSE <<>>]

\* write_file_page for the i-th file: the ai_block, then fs::write, whose
\* result is the function's
write_file_page(i, ai_enabled, fail_at, fs_ok) ==
    LET ai == generate_file_ai_insights_sync(fail_at)
        ai_block == IF ai_enabled
                    THEN (IF ai.ok THEN ai.html ELSE AiFailedCard)
                    ELSE <<>>
    IN  [ok |-> fs_ok,
         written |-> IF fs_ok THEN <<Artifact(PagePath(i), ai_block)>> ELSE <<>>]

\* a `?` returns the error: generate_site is over
Halt(step) ==
    /\ gpc' = "done"
    /\ result' = [ok |-> FALSE, pages |-> 0, failed |-> step, file |-> fi]

\* index_entries.push(..) and the loop's next iteration
NextFile ==
    /\ index_entries' = Append(index_entries, fi)
    /\ IF fi < Len(analysis_files)
       THEN gpc' = "page" /\ fi' = fi + 1
       ELSE gpc' = "symbols" /\ fi' = fi

\* create_dir_all twice, write_style_css, write_search_js
Prepare ==
    /\ gpc = "prepare"
    /\ \E ok \in BOOLEAN :
        IF ok
        THEN /\ produced' = produced \o <<Artifact("assets/style.css", <<>>),
                                          Artifact("assets/search.js", <<>>)>>
             /\ gpc' = "security"
             /\ UNCHANGED result
        ELSE Halt("prepare") /\ UNCHANGED produced
    /\ UNCHANGED <<analysis_files, wiki_config, fi, security_analysis, page_count,
                   index_entries, page_call>>
    /\ UNCHANGED <<diagramVars, securityVars, builderVars, rerunVars>>

\* a severity below the Medium threshold of generate_site, the threshold, the top
SiteSeverities == {"Low", "Medium", "Critical"}

\* what security_analyzer.analyze(analysis) can return inside generate_site
SiteVulnerabilityLists ==
    UNION { { MkVulnerabilities(sevs, fidx) : sevs \in [1..n -> SiteSeverities], fidx \in FilePatterns(n) }
            : n \in 0..MaxSiteVulns }

\* let security_analysis = if self.config.security_insights_enabled { .. }
AnalyzeSecurity ==
    /\ gpc = "security"
    /\ IF wiki_config.security_insights_enabled
       THEN \E ok \in BOOLEAN :
                IF ok
                THEN /\ \E vs \in SiteVulnerabilityLists :
                        /\ vulnerabilities' = vs
                        /\ traces' = identify_security_traces(vs)
                        /\ hotspots' = GroupHotspots(vs, min_hotspot_severity)
                        /\ hotspot_vec' \in identify_security_hotspots(vs, min_hotspot_severity)
                     /\ spc' = "done"
                     /\ security_analysis' = TRUE
                     /\ gpc' = "index"
                     /\ UNCHANGED result
                ELSE /\ Halt("analyze_security")
                     /\ UNCHANGED <<security_analysis, vulnerabilities, traces, hotspots,
                                    hotspot_vec, spc>>
       ELSE /\ security_analysis' = FALSE
            /\ gpc' = "index"
            /\ UNCHANGED <<result, vulnerabilities, traces, hotspots, hotspot_vec, spc>>
    /\ UNCHANGED <<analysis_files, wiki_config, fi, page_count, index_entries, produced,
                   page_call>>
    /\ UNCHANGED <<min_hotspot_severity, config, owasp_rec>>
    /\ UNCHANGED <<diagramVars, builderVars, rerunVars>>

\* the pages written before the loop: index.html, then security.html when
\* security_analysis is Some
FrontPages ==
    <<Artifact("index.html", <<>>)>>
    \o (IF security_analysis THEN <<SecurityOverview(traces)>> ELSE <<>>)

\* BackPages without the hotspots page
BackPages_symbolsOnly == <<Artifact("symbols.html", <<>>)>>

\* the pages written after the loop: symbols.html, then
\* security_hotspots.html when security_analysis is Some
BackPages ==
    <<Artifact("symbols.html", <<>>)>>
    \o (IF security_analysis THEN <<Artifact("security_hotspots.html", <<>>)>> ELSE <<>>)

\* write_index_html and write_security_overview_page; k of them succeed
WriteIndex ==
    /\ gpc = "index"
    /\ \E k \in 0..Len(FrontPages) :
        /\ produced' = produced \o SubSeq(FrontPages, 1, k)
        /\ page_count' = page_count + k
        /\ IF k = Len(FrontPages)
           THEN /\ IF analysis_files = <<>>
                   THEN gpc' = "symbols" /\ fi' = fi
                   ELSE gpc' = "page" /\ fi' = 1
                /\ UNCHANGED result
           ELSE /\ Halt(IF k = 0 THEN "index" ELSE "security_overview")
                /\ UNCHANGED fi
    /\ UNCHANGED <<analysis_files, wiki_config, security_analysis, index_entries, page_call>>
    /\ UNCHANGED <<diagramVars, securityVars, builderVars, rerunVars>>

\* self.write_file_page(..)?; page_count += 1
WriteFilePage ==
    /\ gpc = "page"
    /\ \E fail_at \in (IF wiki_config.ai_enabled THEN 0..Len(AiSteps) ELSE {0}), fs_ok \in BOOLEAN :
        LET r == write_file_page(fi, wiki_config.ai_enabled, fail_at, fs_ok)
        IN  /\ page_call' = [file |-> fi, ai_failed_at |-> fail_at, fs_ok |-> fs_ok, ok |-> r.ok]
            /\ produced' = produced \o r.written
            /\ IF r.ok
               THEN /\ page_count' = page_count + 1
                    /\ IF analysis_files[fi].has_functions
                       THEN gpc' = "usage" /\ UNCHANGED <<fi, index_entries>>
                       ELSE NextFile
                    /\ UNCHANGED result
               ELSE /\ Halt("file_page")
                    /\ UNCHANGED <<page_count, fi, index_entries>>
    /\ UNCHANGED <<analysis_files, wiki_config, security_analysis>>
    /\ UNCHANGED <<diagramVars, securityVars, builderVars, rerunVars>>

\* write_usage_pattern_page(..)?; page_count += 1
WriteUsagePage ==
    /\ gpc = "usage"
    /\ \E ok \in BOOLEAN :
        IF ok
        THEN /\ produced' = Append(produced, Artifact(UsagePath(fi), <<>>))
             /\ page_count' = page_count + 1
             /\ NextFile
             /\ UNCHANGED result
        ELSE /\ Halt("usage_page")
             /\ UNCHANGED <<produced, page_count, fi, index_entries>>
    /\ UNCHANGED <<analysis_files, wiki_config, security_analysis, page_call>>
    /\ UNCHANGED <<diagramVars, securityVars, builderVars, rerunVars>>

\* write_global_symbols and write_security_hotspots_page; k of them succeed
WriteSymbols ==
    /\ gpc = "symbols"
    /\ \E k \in 0..Len(BackPages) :
        /\ produced' = produced \o SubSeq(BackPages, 1, k)
        /\ page_count' = page_count + k
        /\ IF k = Len(BackPages)
           THEN gpc' = "search_index" /\ UNCHANGED result
           ELSE Halt(IF k = 0 THEN "symbols" ELSE "security_hotspots")
    /\ UNCHANGED <<analysis_files, wiki_config, fi, security_analysis, index_entries, page_call>>
    /\ UNCHANGED <<diagramVars, securityVars, builderVars, rerunVars>>

\* write_search_index(..)?; Ok(WikiGenerationResult { pages: page_count })
WriteSearchIndex ==
    /\ gpc = "search_index"
    /\ \E ok \in BOOLEAN :
        IF ok
        THEN /\ produced' = Append(produced, Artifact("assets/search_index.json", <<>>))
             /\ gpc' = "done"
             /\ result' = [ok |-> TRUE, pages |-> page_count, failed |-> "", file |-> 0]
        ELSE Halt("search_index") /\ UNCHANGED produced
    /\ UNCHANGED <<analysis_files, wiki_config, fi, security_analysis, page_count,
                   index_entries, page_call>>
    /\ UNCHANGED <<diagramVars, securityVars, builderVars, rerunVars>>

InitSite ==
    /\ analysis_files \in SiteFiles
    /\ wiki_config \in WikiConfigs
    /\ gpc = "prepare"
    /\ fi = 0
    /\ security_analysis = FALSE
    /\ page_count = 0
    /\ index_entries = <<>>
    /\ produced = <<>>
    /\ page_call = <<>>
    /\ result = <<>>
    /\ DiagramIdle
    /\ SecurityIdle
    /\ BuilderIdle
    /\ RerunIdle

NextSite ==
    \/ Prepare
    \/ AnalyzeSecurity
    \/ WriteIndex
    \/ WriteFilePage
    \/ WriteUsagePage
    \/ WriteSymbols
    \/ WriteSearchIndex

SpecSite == InitSite /\ [][NextSite]_vars

----------------------------------------------------------------------------
\* WikiConfigBuilder: setters in any order, then build

\* the arguments the setters are called with
Titles == {"Docs", ""}
OutputDirs == {"out", "site"}
AiConfigPaths == {"ai.toml", "conf/ai.json"}
AiProviders == {"openai", "mock"}

\* self.<field> = Some(value) or self.<field> = yes, by a setter that takes
\* and returns the builder
Set(field, stored, value) ==
    /\ built = <<>>
    /\ setter_calls < MaxSetterCalls
    /\ builder' = [builder EXCEPT ![field] = stored]
    /\ last_set' = [last_set EXCEPT ![field] = <<value>>]
    /\ setter_calls' = setter_calls + 1
    /\ UNCHANGED built

with_site_title ==
    /\ \E title \in Titles : Set("site_title", <<title>>, title)
    /\ UNCHANGED <<diagramVars, securityVars, siteVars, rerunVars>>
with_output_dir ==
    /\ \E o \in OutputDirs : Set("output_dir", <<o>>, o)
    /\ UNCHANGED <<diagramVars, securityVars, siteVars, rerunVars>>
include_api_docs ==
    /\ \E yes \in BOOLEAN : Set("include_api_docs", yes, yes)
    /\ UNCHANGED <<diagramVars, securityVars, siteVars, rerunVars>>
include_examples ==
    /\ \E yes \in BOOLEAN : Set("include_examples", yes, yes)
    /\ UNCHANGED <<diagramVars, securityVars, siteVars, rerunVars>>
with_ai_enabled ==
    /\ \E yes \in BOOLEAN : Set("ai_enabled", yes, yes)
    /\ UNCHANGED <<diagramVars, securityVars, siteVars, rerunVars>>
with_ai_mock ==
    /\ \E yes \in BOOLEAN : Set("ai_use_mock", yes, yes)
    /\ UNCHANGED <<diagramVars, securityVars, siteVars, rerunVars>>
with_ai_config_path ==
    /\ \E p \in AiConfigPaths : Set("ai_config_path", <<p>>, p)
    /\ UNCHANGED <<diagramVars, securityVars, siteVars, rerunVars>>
with_enhanced_ai ==
    /\ \E yes \in BOOLEAN : Set("enhanced_ai_enabled", yes, yes)
    /\ UNCHANGED <<diagramVars, securityVars, siteVars, rerunVars>>
with_function_enhancement ==
    /\ \E yes \in BOOLEAN : Set("function_enhancement_enabled", yes, yes)
    /\ UNCHANGED <<diagramVars, securityVars, siteVars, rerunVars>>
with_security_insights ==
    /\ \E yes \in BOOLEAN : Set("security_insights_enabled", yes, yes)
    /\ UNCHANGED <<diagramVars, securityVars, siteVars, rerunVars>>
with_refactoring_hints ==
    /\ \E yes \in BOOLEAN : Set("refactoring_hints_enabled", yes, yes)
    /\ UNCHANGED <<diagramVars, securityVars, siteVars, rerunVars>>
with_diagram_annotations ==
    /\ \E yes \in BOOLEAN : Set("diagram_annotations_enabled", yes, yes)
    /\ UNCHANGED <<diagramVars, securityVars, siteVars, rerunVars>>
with_ai_provider ==
    /\ \E provider \in AiProviders : Set("ai_provider", <<provider>>, provider)
    /\ UNCHANGED <<diagramVars, securityVars, siteVars, rerunVars>>
with_performance_analysis ==
    /\ \E yes \in BOOLEAN : Set("performance_analysis_enabled", yes, yes)
    /\ UNCHANGED <<diagramVars, securityVars, siteVars, rerunVars>>

\* the WikiConfig of builder b with output directory dir
ConfigOf(b, dir) ==
    [f \in BoolFields \cup OptionFields |->
        CASE f = "site_title" -> IF b.site_title = <<>> THEN "Code Wiki" ELSE b.site_title[1]
          [] f = "output_dir" -> dir
          [] OTHER -> b[f]]

\* the error of ok_or_else
InvalidInput ==
    [ok |-> FALSE, error |-> "InvalidInput", input_type |-> "WikiConfig",
     expected |-> "output_dir set", actual |-> "None"]

\* build with the output directory defaulting to the current directory
build_defaultDir(b) ==
    [ok |-> TRUE, config |-> ConfigOf(b, IF b.output_dir = <<>> THEN "." ELSE b.output_dir[1])]

\* WikiConfigBuilder::build
build(b) ==
    IF b.output_dir = <<>> THEN InvalidInput
    ELSE [ok |-> TRUE, config |-> ConfigOf(b, b.output_dir[1])]

Build ==
    /\ built = <<>>
    /\ built' = build(builder)
    /\ UNCHANGED <<builder, last_set, setter_calls>>
    /\ UNCHANGED <<diagramVars, securityVars, siteVars, rerunVars>>

InitBuilder ==
    /\ BuilderIdle
    /\ DiagramIdle
    /\ SecurityIdle
    /\ SiteIdle
    /\ RerunIdle

NextBuilder ==
    \/ with_site_title
    \/ with_output_dir
    \/ include_api_docs
    \/ include_examples
    \/ with_ai_enabled
    \/ with_ai_mock
    \/ with_ai_config_path
    \/ with_enhanced_ai
    \/ with_function_enhancement
    \/ with_security_insights
    \/ with_refactoring_hints
    \/ with_diagram_annotations
    \/ with_ai_provider
    \/ with_performance_analysis
    \/ Build

SpecBuilder == InitBuilder /\ [][NextBuilder]_vars

----------------------------------------------------------------------------
\* build_sequence_or_flow_blocks as one step, called twice on the same file,
\* the same CFG build result and the same file text

\* node_indices with the nodes yielded in either direction
node_indices_unordered(c) ==
    {c.nodes, [i \in 1..Len(c.nodes) |-> c.nodes[Len(c.nodes) + 1 - i]]}

\* cfg.graph.node_indices(): the nodes in index order, the only order
node_indices(c) == {c.nodes}

\* the rendering loop from node p with counter i and text fl, then the footer
RECURSIVE RenderFrom(_, _, _, _)
RenderFrom(c, p, i, fl) ==
    IF LoopContinues(c, p, i)
    THEN LET n == c.nodes[p + 1]
         IN  RenderFrom(c, p + 1, IF IsBranch(n) \/ IsCall(n) THEN i + 1 ELSE i,
                        fl \o NodeLines(n, i))
    ELSE fl \o FlowFooter(i)

\* flow_from_cfg: the text of the closure, the empty text standing for None
flow_from_cfg(c) == IF c.built THEN RenderFrom(c, 0, 0, FlowHeader) ELSE <<>>

\* build_sequence_or_flow_blocks giving up (no block) when the CFG is missing
build_sequence_or_flow_blocks_propagating(f, c, h) ==
    IF IsLargeFile(f) THEN SummaryBlock(f)
    ELSE IF ~c.built THEN <<>>
    ELSE SelectBlocks(f, c, flow_from_cfg(c), decision_points(c) # <<>>, h.simple_calls)

\* the whole function on file f, CFG build result c and text facts h
build_sequence_or_flow_blocks(f, c, h) ==
    IF IsLargeFile(f) THEN SummaryBlock(f)
    ELSE LET hb == IF c.built THEN decision_points(c) # <<>> ELSE h.branching
         IN  SelectBlocks(f, c, flow_from_cfg(c), hb, h.simple_calls)

\* one call of build_sequence_or_flow_blocks
RunBlocks ==
    /\ Len(runs) < 2
    /\ \E nodes \in node_indices(cfg) :
        runs' = Append(runs, build_sequence_or_flow_blocks(file, [cfg EXCEPT !.nodes = nodes], heuristics))
    /\ UNCHANGED <<heuristics, diagramVars, securityVars, siteVars, builderVars>>

InitRerun ==
    /\ file \in Files
    /\ cfg \in CfgOutcomes(file)
    /\ heuristics \in [branching : BOOLEAN, simple_calls : SimpleCallsOutcomes]
    /\ runs = <<>>
    /\ pc = "idle"
    /\ pos = 0
    /\ idx = 0
    /\ flow = <<>>
    /\ has_branch = FALSE
    /\ out = <<>>
    /\ SecurityIdle
    /\ SiteIdle
    /\ BuilderIdle

NextRerun == RunBlocks

SpecRerun == InitRerun /\ [][NextRerun]_vars

----------------------------------------------------------------------------
\* Properties of build_sequence_or_flow_blocks (checked under SpecDiagram)

\* the mermaid headers of the cards of a block, in order
MermaidKinds(o) == [i \in 1..Len(o) |-> o[i].mermaid]

\* the ids of the rendered nodes of a flowchart text
RenderedNodeLines(fl) == { i \in 1..Len(fl) : fl[i].k = "node" /\ fl[i].a \notin {"start", "end"} }

\* C1: for a file of at most 20 function symbols the returned block is chosen
\* by (has_decision_point, function count >= 2): (true,true) gives a flowchart
\* and a sequence diagram, (true,false) a flowchart only, (false,true) a
\* sequence diagram only, (false,false) the class diagram only.
C1_DecisionTable ==
    (pc = "done" /\ FuncCount(file) <= 20) =>
        LET multi == FuncCount(file) >= 2
            kinds == MermaidKinds(out)
        IN  /\ (has_branch /\ multi) => kinds = <<"flowchart TB", "sequenceDiagram">>
            /\ (has_branch /\ ~multi) => kinds = <<"flowchart TB">>
            /\ (~has_branch /\ multi) => kinds = <<"sequenceDiagram">>
            /\ (~has_branch /\ ~multi) => kinds = <<"classDiagram">>

\* a branching file with several functions got both diagrams
C1_Witness ==
    /\ pc = "done"
    /\ FuncCount(file) = 3
    /\ has_branch
    /\ MermaidKinds(out) = <<"flowchart TB", "sequenceDiagram">>

C3_NodeCap ==
    /\ idx <= 15
    /\ Cardinality(RenderedNodeLines(flow)) <= 15
    /\ \A i \in RenderedNodeLines(flow) : \E j \in 0..14 : flow[i].a = "N" \o ToString(j)

\* the loop has stopped at 15 rendered nodes on a CFG of more than 15 nodes
C3_Witness ==
    /\ pc = "select"
    /\ Len(cfg.nodes) > 15
    /\ idx = 15
    /\ Cardinality(RenderedNodeLines(flow)) = 15

----------------------------------------------------------------------------
\* Properties of the trace and hotspot engine (checked under SpecSecurity)

\* the severities that are at least min, written out
SeveritiesFrom(min) ==
    CASE min = "Info" -> {"Info", "Low", "Medium", "High", "Critical"}
      [] min = "Low" -> {"Low", "Medium", "High", "Critical"}
      [] min = "Medium" -> {"Medium", "High", "Critical"}
      [] min = "High" -> {"High", "Critical"}
      [] min = "Critical" -> {"Critical"}

TracesBuilt == spc \in {"hotspots", "sort", "done"}

ImpactWeight == [Critical |-> 9, High |-> 7, Medium |-> 5, Low |-> 3, Info |-> 1]

\* C5: every trace's impact chain has 4 entries with strictly decreasing
\* scores; the first is the severity weight and entry i is weight * 0.7^i
\* (in thousandths: weight * 1000, 700, 490, 343).
C5_ImpactChain ==
    \A t \in 1..Len(traces) :
        LET chain == traces[t].impact_chain
            w == ImpactWeight[traces[t].source.severity]
        IN  /\ Len(chain) = 4
            /\ \A i \in 1..3 : chain[i].score > chain[i + 1].score
            /\ chain[1].score = w * 1000
            /\ chain[2].score = w * 700
            /\ chain[3].score = w * 490
            /\ chain[4].score = w * 343

\* a Critical vulnerability's trace starts at 9.0
C5_Witness ==
    \E t \in 1..Len(traces) :
        /\ traces[t].source.severity = "Critical"
        /\ traces[t].impact_chain[1].score = 9000
        /\ traces[t].impact_chain[4].score = 3087

\* C6: for every trace the impact chain is one longer than the propagation
\* path.
C6_ChainLenIsPathLenPlusOne ==
    \A t \in 1..Len(traces) :
        Len(traces[t].impact_chain) = Len(traces[t].propagation_path) + 1

\* the weight a vulnerability adds to its file's hotspot, written out
HotspotWeight == [Info |-> 1, Low |-> 3, Medium |-> 5, High |-> 7, Critical |-> 10]

\* the vulnerabilities located in file f with severity at least min_hotspot_severity
QualifyingIn(f) ==
    { i \in 1..Len(vulnerabilities) :
        /\ vulnerabilities[i].location.file = f
        /\ vulnerabilities[i].severity \in SeveritiesFrom(min_hotspot_severity) }

RECURSIVE SumWeights(_)
SumWeights(S) ==
    IF S = {} THEN 0
    ELSE LET i == CHOOSE j \in S : TRUE
         IN  HotspotWeight[vulnerabilities[i].severity] + SumWeights(S \ {i})

\* C7: a hotspot's risk_score is the sum of the weights (1, 3, 5, 7, 10) of
\* the vulnerabilities of its file with severity >= min_hotspot_severity.
C7_RiskScoreIsSum ==
    spc = "done" =>
        \A k \in 1..Len(hotspot_vec) :
            hotspot_vec[k].risk_score = SumWeights(QualifyingIn(hotspot_vec[k].location.file))

\* one High and one Medium vulnerability in one file: one hotspot of score 12
C7_Witness ==
    /\ spc = "done"
    /\ min_hotspot_severity = "Medium"
    /\ Len(vulnerabilities) = 2
    /\ vulnerabilities[1].severity = "High"
    /\ vulnerabilities[2].severity = "Medium"
    /\ vulnerabilities[1].location.file = vulnerabilities[2].location.file
    /\ Len(hotspot_vec) = 1
    /\ hotspot_vec[1].risk_score = 12

\* C8: the returned hotspots are in non-increasing order of risk_score.
C8_SortedDescending ==
    spc = "done" =>
        \A i, j \in 1..Len(hotspot_vec) :
            i < j => hotspot_vec[i].risk_score >= hotspot_vec[j].risk_score

\* the file seen second ranks first, ahead of two hotspots of lower score
C8_Witness ==
    /\ spc = "done"
    /\ Len(hotspot_vec) = 3
    /\ hotspot_vec[1].location.file = Paths[2]
    /\ hotspot_vec[1].risk_score > hotspot_vec[2].risk_score
    /\ hotspot_vec[2].risk_score > hotspot_vec[3].risk_score

\* C9: a hotspot's severity is the greatest severity among the
\* vulnerabilities that contributed to it, whatever their order in the list.
C9_SeverityIsMax ==
    spc = "done" =>
        \A k \in 1..Len(hotspot_vec) :
            LET from == QualifyingIn(hotspot_vec[k].location.file)
            IN  /\ \E i \in from : vulnerabilities[i].severity = hotspot_vec[k].severity
                /\ \A i \in from :
                    hotspot_vec[k].severity \in SeveritiesFrom(vulnerabilities[i].severity)

\* the greatest severity came first and was kept
C9_Witness ==
    /\ spc = "done"
    /\ Len(vulnerabilities) = 3
    /\ vulnerabilities[1].severity = "Critical"
    /\ vulnerabilities[2].severity = "Low"
    /\ vulnerabilities[3].severity = "High"
    /\ \A i \in 1..3 : vulnerabilities[i].location.file = Paths[1]
    /\ min_hotspot_severity = "Info"
    /\ Len(hotspot_vec) = 1
    /\ hotspot_vec[1].severity = "Critical"

\* C10: there is exactly one hotspot for each file that has a vulnerability
\* of severity >= min_hotspot_severity and none for any other file; its
\* vulnerability_count is the number of those vulnerabilities (so >= 1).
C10_OneHotspotPerFile ==
    spc = "done" =>
        /\ \A i \in 1..Len(vulnerabilities) :
            LET f == vulnerabilities[i].location.file
            IN  Cardinality({ k \in 1..Len(hotspot_vec) : hotspot_vec[k].location.file = f })
                    = IF QualifyingIn(f) # {} THEN 1 ELSE 0
        /\ \A k \in 1..Len(hotspot_vec) :
            /\ \E i \in 1..Len(vulnerabilities) :
                vulnerabilities[i].location.file = hotspot_vec[k].location.file
            /\ hotspot_vec[k].vulnerability_count
                    = Cardinality(QualifyingIn(hotspot_vec[k].location.file))
            /\ hotspot_vec[k].vulnerability_count >= 1

\* a file with two qualifying vulnerabilities makes one hotspot of count 2 and
\* a file whose only vulnerability is below the threshold makes none
C10_Witness ==
    /\ spc = "done"
    /\ Len(vulnerabilities) = 3
    /\ Len(hotspot_vec) = 1
    /\ hotspot_vec[1].vulnerability_count = 2
    /\ \E i \in 1..3 :
        /\ QualifyingIn(vulnerabilities[i].location.file) = {}
        /\ \A k \in 1..Len(hotspot_vec) :
            hotspot_vec[k].location.file # vulnerabilities[i].location.file

\* the category's entries of the mitigation list, written out
CategoryEntries(category) ==
    CASE category = "Injection" ->
            <<"Use parameterized queries or stored procedures",
              "Validate and sanitize all user inputs",
              "Use an ORM or query builder with built-in protection">>
      [] category = "BrokenAccessControl" ->
            <<"Implement proper authorization checks",
              "Use role-based access control (RBAC)",
              "Follow principle of least privilege">>
      [] category = "CryptographicFailures" ->
            <<"Use strong encryption algorithms (AES-256)",
              "Store encryption keys securely",
              "Implement key rotation policies">>
      [] OTHER ->
            <<"Review and fix security weakness",
              "Follow secure coding best practices">>

\* C11: a trace's mitigations are its category's entries (3 for Injection,
\* BrokenAccessControl and CryptographicFailures, 2 generic ones otherwise)
\* followed, if and only if the severity is High or Critical, by the testing
\* and the monitoring entry: 5 entries for a High or Critical Injection, 3 for
\* a Medium one, 4 or 2 for the other categories.
C11_Mitigations ==
    \A t \in 1..Len(traces) :
        LET src == traces[t].source
            m == traces[t].mitigations
            base == CategoryEntries(src.owasp_category)
            three == src.owasp_category \in {"Injection", "BrokenAccessControl", "CryptographicFailures"}
            high == src.severity \in {"High", "Critical"}
        IN  /\ Len(base) = IF three THEN 3 ELSE 2
            /\ Len(m) = Len(base) + (IF high THEN 2 ELSE 0)
            /\ SubSeq(m, 1, Len(base)) = base
            /\ high => SubSeq(m, Len(base) + 1, Len(m))
                          = <<"Conduct thorough security testing", "Implement monitoring and alerting">>
            /\ (src.owasp_category = "Injection" /\ high) => Len(m) = 5
            /\ (src.owasp_category = "Injection" /\ src.severity = "Medium") => Len(m) = 3
            /\ ~three => Len(m) = IF high THEN 4 ELSE 2

\* a High Injection got 5 entries and a Medium generic finding got 2
C11_Witness ==
    /\ \E t \in 1..Len(traces) :
        /\ traces[t].source.owasp_category = "Injection"
        /\ traces[t].source.severity = "High"
        /\ Len(traces[t].mitigations) = 5
        /\ traces[t].mitigations[5] = "Implement monitoring and alerting"
    /\ \E t \in 1..Len(traces) :
        /\ traces[t].source.owasp_category = "InsecureDesign"
        /\ traces[t].source.severity = "Medium"
        /\ Len(traces[t].mitigations) = 2

\* C12 as stated: every trace's propagation path is non-empty and its first
\* call site is the vulnerable function, a vulnerability without a function
\* name included.
C12_PathNeverEmpty ==
    \A t \in 1..Len(traces) :
        /\ traces[t].propagation_path # <<>>
        /\ <<traces[t].propagation_path[1].function_name>> = traces[t].source.location.function

\* C12: the propagation path of a trace whose vulnerability names a function
\* is non-empty and its first call site is that function, at the
\* vulnerability's own location; the path of a trace whose vulnerability names
\* no function is empty.
C12_PathStartsAtFunction ==
    \A t \in 1..Len(traces) :
        LET path == traces[t].propagation_path
            loc == traces[t].source.location
        IN  IF loc.function = <<>>
            THEN path = <<>>
            ELSE /\ path # <<>>
                 /\ path[1].function_name = loc.function[1]
                 /\ path[1].location = loc
                 /\ path[1].context.trust_boundary = "External"

\* a handler's trace starts at the handler and goes on to process_data, next
\* to a trace of a vulnerability without function name whose path is empty
C12_Witness ==
    /\ \E t \in 1..Len(traces) :
        /\ traces[t].source.location.function = <<"request_handler">>
        /\ Len(traces[t].propagation_path) = 2
        /\ traces[t].propagation_path[1].function_name = "request_handler"
        /\ traces[t].propagation_path[2].function_name = "process_data"
    /\ \E t \in 1..Len(traces) :
        /\ traces[t].source.location.function = <<>>
        /\ traces[t].propagation_path = <<>>

----------------------------------------------------------------------------
\* Properties of the rendered diagrams (checked under SpecDiagram)

\* the number of Branch and Call nodes among the first p nodes of the CFG
RenderableBefore(p) ==
    Cardinality({ q \in 1..p : cfg.nodes[q].type \in {"Branch", "Call"} })

\* the flowchart text has the line N_i -->|repeat| N_i
HasRepeatEdge(i) ==
    \E l \in 1..Len(flow) :
        flow[l] = [k |-> "edge", a |-> "N" \o ToString(i), b |-> "N" \o ToString(i), label |-> "repeat"]

\* C13: in the CFG-derived flowchart a rendered node has a "repeat" self-edge
\* if and only if it is a Branch whose node type contains "for", "while" or
\* "loop", at every rendered position 0..14.
C13_RepeatEdges ==
    \A p \in 1..pos :
        LET n == cfg.nodes[p]
            i == RenderableBefore(p - 1)
            loops == /\ n.type = "Branch"
                     /\ (Contains(n.name, "for") \/ Contains(n.name, "while") \/ Contains(n.name, "loop"))
        IN  (n.type \in {"Branch", "Call"} /\ i <= 14) => (HasRepeatEdge(i) <=> loops)

\* the cards of the block that are flowcharts
FlowCards == { i \in 1..Len(out) : out[i].mermaid = "flowchart TB" }

\* C14: the flowchart rendered for a file whose CFG has an if/else branch
\* among its rendered nodes contains an edge labelled "true" or "false".
C14_TrueFalseEdges ==
    (/\ pc = "done"
     /\ \E p \in 1..pos : cfg.nodes[p].type = "Branch" /\ cfg.nodes[p].name = "if_expression")
    => \A c \in FlowCards :
          \E l \in 1..Len(out[c].body) :
              /\ out[c].body[l].k = "edge"
              /\ out[c].body[l].label \in {"true", "false"}

\* the names of the Call nodes of the CFG, in node order
CalleesInOrder ==
    LET calls == SelectSeq(cfg.nodes, LAMBDA n : n.type = "Call")
    IN  [i \in 1..Len(calls) |-> calls[i].name]

\* the first symbol of the file whose kind contains "fn" or "function"
FirstFunction ==
    LET first == CHOOSE i \in 1..Len(file.symbols) :
                    /\ Contains(file.symbols[i].kind, "fn") \/ Contains(file.symbols[i].kind, "function")
                    /\ \A j \in 1..(i - 1) :
                        ~(Contains(file.symbols[j].kind, "fn") \/ Contains(file.symbols[j].kind, "function"))
    IN  file.symbols[first]

\* the message lines of a card, in order
Messages(card) == SelectSeq(card.body, LAMBDA l : l.k = "message")

\* C15: when the CFG yields a non-empty call sequence, the sequence diagram
\* has exactly one message per callee of that sequence, in the CFG order,
\* each from the first declared function symbol.
C15_CfgCallMessages ==
    (pc = "done" /\ cfg.built /\ CalleesInOrder # <<>>) =>
        \A c \in 1..Len(out) :
            out[c].mermaid = "sequenceDiagram" =>
                Messages(out[c]) =
                    [i \in 1..Len(CalleesInOrder) |->
                        [k |-> "message", a |-> safe_ident(FirstFunction.name),
                         b |-> safe_ident(CalleesInOrder[i]), label |-> "call"]]

\* a calling b and then a long-named callee: two messages from a, in that order
C15_Witness ==
    /\ pc = "done"
    /\ FuncCount(file) = 2
    /\ Len(CalleesInOrder) = 2
    /\ CalleesInOrder[1] = "b"
    /\ CalleesInOrder[2] # "b"
    /\ \E c \in 1..Len(out) :
        /\ out[c].mermaid = "sequenceDiagram"
        /\ Len(Messages(out[c])) = 2
        /\ Messages(out[c])[1] = [k |-> "message", a |-> "a", b |-> "b", label |-> "call"]

----------------------------------------------------------------------------
\* Properties of the configured generator (checked under SpecGenerator)

\* C16: each option gates its engine whatever the other options are: with
\* enable_trace_analysis false there are no traces, with
\* enable_hotspot_visualization false no hotspots, and with
\* enable_owasp_recommendations false no OWASP recommendations.
C16_OptionsGateEngines ==
    /\ ~config.enable_trace_analysis => traces = <<>>
    /\ ~config.enable_hotspot_visualization => (hotspots = <<>> /\ hotspot_vec = <<>>)
    /\ ~config.enable_owasp_recommendations => owasp_rec = <<>>

----------------------------------------------------------------------------
\* Properties of generate_site and write_file_page (checked under SpecSite)

ProducedPaths == { produced[i].path : i \in 1..Len(produced) }

\* C17: a failure while producing the page of one file (its page or its
\* usage-pattern page) never halts the batch: the pages of all remaining
\* files, the symbols page and the search index are still produced.
C17_BatchNeverHalts ==
    (gpc = "done" /\ result.failed \in {"file_page", "usage_page"}) =>
        /\ \A j \in (result.file + 1)..Len(analysis_files) : PagePath(j) \in ProducedPaths
        /\ "symbols.html" \in ProducedPaths
        /\ "assets/search_index.json" \in ProducedPaths

\* C18: when AI is enabled and the AI collaborator fails at any of its six
\* steps for a file, write_file_page returns what it returns without the
\* failure (the result of the write) and the page it writes carries the
\* "AI generation failed." card as its AI block.
C18_AiFailureDegrades ==
    (page_call # <<>> /\ wiki_config.ai_enabled /\ page_call.ai_failed_at # 0) =>
        /\ page_call.ok = write_file_page(page_call.file, TRUE, 0, page_call.fs_ok).ok
        /\ page_call.ok = page_call.fs_ok
        /\ page_call.fs_ok =>
            \E i \in 1..Len(produced) :
                /\ produced[i].path = PagePath(page_call.file)
                /\ produced[i].ai_block = <<"AI generation failed.">>

\* the third request failed for the second file: its page was written with
\* the placeholder card and the batch went on to the end
C18_Witness ==
    /\ gpc = "done"
    /\ result.ok
    /\ wiki_config.ai_enabled
    /\ page_call # <<>>
    /\ page_call.file = 2
    /\ page_call.ai_failed_at = 5
    /\ page_call.ok
    /\ \E i \in 1..Len(produced) :
        /\ produced[i].path = "pages/F2.html"
        /\ produced[i].ai_block = <<"AI generation failed.">>

----------------------------------------------------------------------------
\* Properties of WikiConfigBuilder (checked under SpecBuilder)

\* C19: build returns the InvalidInput error if and only if with_output_dir
\* was never called, whatever other setters were; otherwise it returns a
\* config whose every field is the last value set, site_title defaulting to
\* "Code Wiki", the booleans to false and the optional fields to None.
C19_BuildResult ==
    built # <<>> =>
        /\ built.ok <=> last_set["output_dir"] # <<>>
        /\ ~built.ok => built.error = "InvalidInput"
        /\ built.ok =>
            /\ \A f \in {"include_api_docs", "include_examples", "ai_enabled", "ai_use_mock",
                         "enhanced_ai_enabled", "function_enhancement_enabled",
                         "security_insights_enabled", "refactoring_hints_enabled",
                         "diagram_annotations_enabled", "performance_analysis_enabled"} :
                built.config[f] = IF last_set[f] = <<>> THEN FALSE ELSE last_set[f][1]
            /\ built.config["site_title"]
                  = IF last_set["site_title"] = <<>> THEN "Code Wiki" ELSE last_set["site_title"][1]
            /\ built.config["output_dir"] = last_set["output_dir"][1]
            /\ built.config["ai_config_path"] = last_set["ai_config_path"]
            /\ built.config["ai_provider"] = last_set["ai_provider"]

\* three setters other than with_output_dir were called and build failed
C19_Witness ==
    /\ built # <<>>
    /\ ~built.ok
    /\ built.error = "InvalidInput"
    /\ setter_calls = 3
    /\ last_set["site_title"] = <<"Docs">>
    /\ last_set["ai_enabled"] = <<TRUE>>
    /\ last_set["ai_provider"] = <<"mock">>

----------------------------------------------------------------------------
\* Properties of repeated calls (checked under SpecRerun)

----------------------------------------------------------------------------
\* Properties of the severity scale (checked under SpecSecurity)

\* the scale, lowest first
Scale == <<"Info", "Low", "Medium", "High", "Critical">>

\* the position of a severity on the scale
Rank(sev) == CHOOSE i \in 1..Len(Scale) : Scale[i] = sev

\* C21: the comparison on SecuritySeverity is the strict total order
\* Info < Low < Medium < High < Critical; severity_score and the initial
\* impact score are strictly increasing along it; the trace threshold, the
\* hotspot threshold and the score-based severity update of a hotspot agree
\* with that order.
C21_SeverityScale ==
    /\ \A i, j \in 1..Len(Scale) :
        /\ (SeverityOrd(Scale[i]) < SeverityOrd(Scale[j])) <=> (i < j)
        /\ SeverityGe(Scale[i], Scale[j]) <=> (i >= j)
        /\ (i < j) => severity_score(Scale[i]) < severity_score(Scale[j])
        /\ (i < j) => initial_score(Scale[i]) < initial_score(Scale[j])
    /\ \A v \in 1..Len(vulnerabilities) :
        LET sev == vulnerabilities[v].severity
        IN  /\ IsTraced(vulnerabilities[v]) <=> (Rank(sev) >= Rank("Medium"))
            /\ Qualifies(vulnerabilities[v], min_hotspot_severity)
                  <=> (Rank(sev) >= Rank(min_hotspot_severity))
            /\ \A k \in 1..Len(hotspot_vec) :
                LET before == hotspot_vec[k].severity
                    after == UpdateHotspot(hotspot_vec[k], vulnerabilities[v]).severity
                IN  after = IF Rank(sev) > Rank(before) THEN sev ELSE before

\* a High finding met the High threshold exactly and was then outranked by a
\* Critical one of the same file
C21_Witness ==
    /\ spc = "done"
    /\ min_hotspot_severity = "High"
    /\ Len(vulnerabilities) = 3
    /\ vulnerabilities[1].severity = "High"
    /\ vulnerabilities[2].severity = "Critical"
    /\ vulnerabilities[3].severity = "Medium"
    /\ \A i \in 1..3 : vulnerabilities[i].location.file = Paths[1]
    /\ Len(hotspot_vec) = 1
    /\ hotspot_vec[1].severity = "Critical"
    /\ hotspot_vec[1].vulnerability_count = 2
    /\ Len(traces) = 3

----------------------------------------------------------------------------
\* C22

\* the symbol-ordered flow of the file: start, each symbol in declaration
\* order, end
SymbolOrderedFlow ==
    LET n == Len(file.symbols)
        Step(i) ==
            <<[k |-> "node", a |-> "F" \o ToString(i - 1), b |-> "", label |-> file.symbols[i].name],
              [k |-> "edge", a |-> "F" \o ToString(i - 1),
               b |-> IF i < n THEN "F" \o ToString(i) ELSE "end", label |-> ""]>>
        RECURSIVE Steps(_)
        Steps(i) == IF i = 0 THEN <<>> ELSE Steps(i - 1) \o Step(i)
    IN  <<[k |-> "node", a |-> "start", b |-> "", label |-> "Start"],
          [k |-> "node", a |-> "end", b |-> "", label |-> "End"],
          [k |-> "edge", a |-> "start", b |-> "F0", label |-> ""]>> \o Steps(n)

\* one message per pair of consecutive function symbols
AdjacencyMessages ==
    LET fs == SelectSeq(file.symbols, LAMBDA s : Contains(s.kind, "fn") \/ Contains(s.kind, "function"))
    IN  [i \in 1..(Len(fs) - 1) |->
            [k |-> "message", a |-> safe_ident(fs[i].name), b |-> safe_ident(fs[i + 1].name),
             label |-> "call"]]

\* one message per heuristic call site whose two names are function symbols
HeuristicMessages ==
    LET fs == SelectSeq(file.symbols, LAMBDA s : Contains(s.kind, "fn") \/ Contains(s.kind, "function"))
        Known(nm) == \E i \in 1..Len(fs) : fs[i].name = nm
        kept == SelectSeq(heuristics.simple_calls, LAMBDA p : Known(p[1]) /\ Known(p[2]))
    IN  [i \in 1..Len(kept) |->
            [k |-> "message", a |-> safe_ident(kept[i][1]), b |-> safe_ident(kept[i][2]),
             label |-> "call"]]

\* a call on a small file without a CFG returned blocks o: at least one
\* diagram, a flowchart exactly when the heuristic scan found a branch, the
\* flowchart being the symbol-ordered flow
FallbackBlocks(o) ==
    /\ o # <<>>
    /\ \A c \in 1..Len(o) : o[c].mermaid \in {"flowchart TB", "sequenceDiagram", "classDiagram"}
    /\ (\E c \in 1..Len(o) : o[c].mermaid = "flowchart TB") <=> heuristics.branching
    /\ \A c \in 1..Len(o) : o[c].mermaid = "flowchart TB" => o[c].body = SymbolOrderedFlow

\* run r was made without a CFG on a file of at most 20 function symbols
NoCfgRun(r) ==
    /\ r \in 1..Len(runs)
    /\ ~cfg.built
    /\ Cardinality({ i \in 1..Len(file.symbols) :
            Contains(file.symbols[i].kind, "fn") \/ Contains(file.symbols[i].kind, "function") }) <= 20

\* C22 (as stated): without a CFG the call still returns a diagram, the
\* flowchart is the symbol-ordered flow, has_decision_point is the heuristic
\* scan's answer, and the messages of the sequence diagram are the adjacency
\* of consecutive function symbols.
C22_FallbackIsAdjacency ==
    \A r \in 1..Len(runs) :
        NoCfgRun(r) =>
            /\ FallbackBlocks(runs[r])
            /\ \A c \in 1..Len(runs[r]) :
                runs[r][c].mermaid = "sequenceDiagram" => Messages(runs[r][c]) = AdjacencyMessages

\* C22 (amended): without a CFG the call still returns a diagram, the
\* flowchart is the symbol-ordered flow, has_decision_point is the heuristic
\* scan's answer, and the messages of the sequence diagram come from the
\* heuristic call sites when the scan found any, from adjacency otherwise.
C22_FallbackNeverFails ==
    \A r \in 1..Len(runs) :
        NoCfgRun(r) =>
            /\ FallbackBlocks(runs[r])
            /\ \A c \in 1..Len(runs[r]) :
                runs[r][c].mermaid = "sequenceDiagram" =>
                    Messages(runs[r][c]) =
                        IF heuristics.simple_calls # <<>> THEN HeuristicMessages ELSE AdjacencyMessages

\* no CFG, three functions a, b, m, a branch and the call site a -> m found by
\* the scans: the flowchart of the three symbols and one message a ->> m
C22_Witness ==
    /\ Len(runs) >= 1
    /\ ~cfg.built
    /\ heuristics = [branching |-> TRUE, simple_calls |-> <<<<"a", "m">>>>]
    /\ Len(file.symbols) = 3
    /\ Len(runs[1]) = 2
    /\ runs[1][1].mermaid = "flowchart TB"
    /\ Len(runs[1][1].body) = 9
    /\ Messages(runs[1][2]) = <<[k |-> "message", a |-> "a", b |-> "m", label |-> "call"]>>

----------------------------------------------------------------------------
\* C23

\* a CFG was built and none of its first 15 nodes is a Branch or a Call
ZeroRenderableNodes ==
    /\ cfg.built
    /\ \A p \in 1..Len(cfg.nodes) : p <= 15 => cfg.nodes[p].type \notin {"Branch", "Call"}

\* C23: when a CFG is built and none of its first 15 nodes is a Branch or a
\* Call node, the flowchart shown is the symbol-ordered synthetic flow (start,
\* each symbol in declaration order, end).
C23_ZeroNodesSymbolFlow ==
    (pc = "done" /\ ZeroRenderableNodes) =>
        \A c \in FlowCards : out[c].body = SymbolOrderedFlow

----------------------------------------------------------------------------
\* C24

\* one message from the first declared function to each callee of the CFG
CfgMessages ==
    [i \in 1..Len(CalleesInOrder) |->
        [k |-> "message", a |-> safe_ident(FirstFunction.name), b |-> safe_ident(CalleesInOrder[i]),
         label |-> "call"]]

\* the tier that supplies the messages of a sequence diagram
Tier ==
    IF cfg.built /\ CalleesInOrder # <<>> THEN "cfg"
    ELSE IF heuristics.simple_calls # <<>> THEN "heuristic"
    ELSE "adjacency"

\* C24: the messages of a sequence diagram are those of exactly one tier: the
\* CFG calls when the CFG gives a call, the heuristic call sites only when it
\* gives none, adjacency only when neither gives a call.
C24_FirstTierWins ==
    \A r \in 1..Len(runs) : \A c \in 1..Len(runs[r]) :
        runs[r][c].mermaid = "sequenceDiagram" =>
            Messages(runs[r][c]) =
                CASE Tier = "cfg" -> CfgMessages
                  [] Tier = "heuristic" -> HeuristicMessages
                  [] Tier = "adjacency" -> AdjacencyMessages

\* functions a, b, m; the CFG has the call b and the scan found a -> m: the
\* only message is a ->> b
C24_Witness ==
    /\ Len(runs) >= 1
    /\ cfg.built
    /\ CalleesInOrder = <<"b">>
    /\ heuristics.simple_calls = <<<<"a", "m">>>>
    /\ Len(AdjacencyMessages) = 2
    /\ Len(runs[1]) = 1
    /\ runs[1][1].mermaid = "sequenceDiagram"
    /\ Messages(runs[1][1]) = <<[k |-> "message", a |-> "a", b |-> "b", label |-> "call"]>>

----------------------------------------------------------------------------
\* C25

\* the names of the file's function symbols, as diagram identifiers
FunctionIdents ==
    { safe_ident(file.symbols[i].name) : i \in { j \in 1..Len(file.symbols) :
        Contains(file.symbols[j].kind, "fn") \/ Contains(file.symbols[j].kind, "function") } }

\* the call sites of the scan whose caller and callee are both function symbols
KnownSites ==
    SelectSeq(heuristics.simple_calls,
              LAMBDA p : \A e \in {p[1], p[2]} :
                  \E i \in 1..Len(file.symbols) :
                      /\ file.symbols[i].name = e
                      /\ Contains(file.symbols[i].kind, "fn") \/ Contains(file.symbols[i].kind, "function"))

\* C25: when the heuristic tier supplies the messages, every message has its
\* caller and its callee among the file's function symbols, there is one
\* message per call site with both names known, and none at all when every
\* call site is dropped (adjacency is not used).
C25_HeuristicPairsKnown ==
    \A r \in 1..Len(runs) : \A c \in 1..Len(runs[r]) :
        (runs[r][c].mermaid = "sequenceDiagram" /\ Tier = "heuristic") =>
            LET msgs == Messages(runs[r][c])
            IN  /\ \A i \in 1..Len(msgs) : msgs[i].a \in FunctionIdents /\ msgs[i].b \in FunctionIdents
                /\ Len(msgs) = Len(KnownSites)
                /\ \A i \in 1..Len(msgs) :
                    msgs[i].a = safe_ident(KnownSites[i][1]) /\ msgs[i].b = safe_ident(KnownSites[i][2])
                /\ KnownSites = <<>> => msgs = <<>>

\* functions a and b, the scan found a -> m and a -> helper: both pairs are
\* dropped and the diagram has the two participants and no message
C25_Witness ==
    /\ Len(runs) >= 1
    /\ Tier = "heuristic"
    /\ heuristics.simple_calls = <<<<"a", "m">>, <<"a", "helper">>>>
    /\ FunctionIdents = {"a", "b"}
    /\ \E c \in 1..Len(runs[1]) :
        /\ runs[1][c].mermaid = "sequenceDiagram"
        /\ runs[1][c].body = <<[k |-> "participant", a |-> "a", b |-> "", label |-> ""],
                               [k |-> "participant", a |-> "b", b |-> "", label |-> ""]>>

----------------------------------------------------------------------------
\* C26

\* what the function names of the findings contain, letter case set aside:
\* handler, admin or auth, sanitize or escape
NameFacts(name) ==
    CASE name = "load_user" -> [handler |-> FALSE, auth |-> FALSE, sanitized |-> FALSE]
      [] name = "AdminHandler" -> [handler |-> TRUE, auth |-> TRUE, sanitized |-> FALSE]
      [] name = "escape_auth_token" -> [handler |-> FALSE, auth |-> TRUE, sanitized |-> TRUE]
      [] name = "request_handler" -> [handler |-> TRUE, auth |-> FALSE, sanitized |-> FALSE]

\* C26: for a vulnerability with a function name the path has length 2 if
\* the name contains "handler" and length 1 otherwise (names compared in lower
\* case); the first site is External, requires_auth iff the name contains
\* "admin" or "auth", is_sanitized iff it contains "sanitize" or "escape"; the
\* second site is process_data at start_line + 10, end_line + 15, column 0,
\* Internal.
C26_PathShape ==
    \A t \in 1..Len(traces) :
        LET path == traces[t].propagation_path
            loc == traces[t].source.location
        IN  loc.function # <<>> =>
                LET facts == NameFacts(loc.function[1])
                IN  /\ Len(path) = IF facts.handler THEN 2 ELSE 1
                    /\ path[1].context.trust_boundary = "External"
                    /\ path[1].context.requires_auth = facts.auth
                    /\ path[1].context.is_sanitized = facts.sanitized
                    /\ facts.handler =>
                        /\ path[2].function_name = "process_data"
                        /\ path[2].location.function = <<"process_data">>
                        /\ path[2].location.start_line = loc.start_line + 10
                        /\ path[2].location.end_line = loc.end_line + 15
                        /\ path[2].location.column = 0
                        /\ path[2].context.trust_boundary = "Internal"

\* AdminHandler (lines 30-42) gets the second site at lines 40-57 and needs
\* auth; escape_auth_token gets one site that needs auth and is sanitized
C26_Witness ==
    /\ \E t \in 1..Len(traces) :
        /\ traces[t].source.location.function = <<"AdminHandler">>
        /\ Len(traces[t].propagation_path) = 2
        /\ traces[t].propagation_path[1].context.requires_auth
        /\ traces[t].propagation_path[2].location.start_line = 40
        /\ traces[t].propagation_path[2].location.end_line = 57
    /\ \E t \in 1..Len(traces) :
        /\ traces[t].source.location.function = <<"escape_auth_token">>
        /\ Len(traces[t].propagation_path) = 1
        /\ traces[t].propagation_path[1].context.requires_auth
        /\ traces[t].propagation_path[1].context.is_sanitized

----------------------------------------------------------------------------
\* C27

\* the artifacts of generate_site that are pages (not assets)
IsPage(a) == SubSeq(a.path, 1, 7) # "assets/"

PagesWritten == SelectSeq(produced, IsPage)

\* the vulnerabilities of severity Medium or more in the file of path
SiteQualifying(path) ==
    { v \in 1..Len(vulnerabilities) :
        /\ vulnerabilities[v].location.file = path
        /\ vulnerabilities[v].severity \in {"Medium", "High", "Critical"} }

\* hotspot_vec is the finished list: one hotspot per file with a qualifying
\* vulnerability, counting all of them, in descending order of risk_score
HotspotsFinal ==
    /\ \A i, j \in 1..Len(hotspot_vec) :
        /\ i < j => hotspot_vec[i].risk_score >= hotspot_vec[j].risk_score
        /\ hotspot_vec[i].location.file = hotspot_vec[j].location.file => i = j
    /\ \A i \in 1..Len(hotspot_vec) :
        /\ SiteQualifying(hotspot_vec[i].location.file) # {}
        /\ hotspot_vec[i].vulnerability_count = Cardinality(SiteQualifying(hotspot_vec[i].location.file))
    /\ \A v \in 1..Len(vulnerabilities) :
        SiteQualifying(vulnerabilities[v].location.file) # {} =>
            \E i \in 1..Len(hotspot_vec) : hotspot_vec[i].location.file = vulnerabilities[v].location.file

\* C27: in generate_site the hotspot list is aggregated over the whole
\* vulnerability list and ranked before the first page is written, and it does
\* not change once a page has been written.
C27_HotspotsBeforePages ==
    [][PagesWritten' # <<>> =>
        /\ HotspotsFinal'
        /\ PagesWritten # <<>> => hotspot_vec' = hotspot_vec]_vars

\* a finished run with security insights: two hotspots, the riskier first, and
\* the hotspots page written last of the pages
C27_Witness ==
    /\ gpc = "done"
    /\ result.ok
    /\ security_analysis
    /\ Len(vulnerabilities) = 2
    /\ Len(hotspot_vec) = 2
    /\ hotspot_vec[1].risk_score > hotspot_vec[2].risk_score
    /\ PagesWritten[1].path = "index.html"
    /\ PagesWritten[Len(PagesWritten)].path = "security_hotspots.html"

----------------------------------------------------------------------------
\* C28

\* the number of files with at least one function symbol
FilesWithFunctions ==
    Cardinality({ i \in 1..Len(analysis_files) : analysis_files[i].has_functions })

\* C28: the counter equals the number of pages written so far in every state
\* of the run, and on success generate_site reports
\* 2 + files + files with a function symbol + (2 if security insights), which
\* is at least 2.
C28_PageCount ==
    /\ page_count = Len(PagesWritten)
    /\ (gpc = "done" /\ result.ok) =>
        /\ result.pages = 2 + Len(analysis_files) + FilesWithFunctions
                          + (IF wiki_config.security_insights_enabled THEN 2 ELSE 0)
        /\ result.pages = Len(PagesWritten)
        /\ result.pages >= 2

\* two files, one of them with functions, security insights on: 7 pages
C28_Witness ==
    /\ gpc = "done"
    /\ result.ok
    /\ wiki_config.security_insights_enabled
    /\ Len(analysis_files) = 2
    /\ FilesWithFunctions = 1
    /\ result.pages = 7
    /\ Len(PagesWritten) = 7

----------------------------------------------------------------------------
\* C29

\* the diagram expected for a trace: graph TD, A, A --> B (impact 0), then for
\* the i-th call site C_i, the edge from B or C_(i-1), D_i (impact i+1) and
\* C_i --> D_i
ExpectedTraceLines(trace) ==
    LET chain == trace.impact_chain
        path == trace.propagation_path
        head == <<[k |-> "graph", a |-> "TD", b |-> "", label |-> "", score |-> 0],
                  [k |-> "node", a |-> "A", b |-> "", label |-> trace.source.title, score |-> 0],
                  [k |-> "edge_node", a |-> "A", b |-> "B", label |-> "Impact", score |-> chain[1].score]>>
        first == <<[k |-> "node", a |-> "C0", b |-> "", label |-> path[1].function_name, score |-> 0],
                   [k |-> "edge", a |-> "B", b |-> "C0", label |-> "", score |-> 0],
                   [k |-> "node", a |-> "D0", b |-> "", label |-> "Impact", score |-> chain[2].score],
                   [k |-> "edge", a |-> "C0", b |-> "D0", label |-> "", score |-> 0]>>
        second == <<[k |-> "node", a |-> "C1", b |-> "", label |-> path[2].function_name, score |-> 0],
                    [k |-> "edge", a |-> "C0", b |-> "C1", label |-> "", score |-> 0],
                    [k |-> "node", a |-> "D1", b |-> "", label |-> "Impact", score |-> chain[3].score],
                    [k |-> "edge", a |-> "C1", b |-> "D1", label |-> "", score |-> 0]>>
    IN  CASE Len(path) = 0 -> head
          [] Len(path) = 1 -> head \o first
          [] Len(path) = 2 -> head \o first \o second

\* the security overview pages written so far
OverviewPages == { i \in 1..Len(produced) : produced[i].path = "security.html" }

\* C29: for every trace built by identify_security_traces the diagram is
\* drawn without a read of the impact chain out of bounds, and it has the
\* initial impact node B and one impact node D_i after each call site C_i,
\* the sites chained B -> C0 -> C1.
C29_TraceDiagram ==
    \A p \in OverviewPages :
        /\ Len(produced[p].diagrams) = Len(traces)
        /\ \A t \in 1..Len(traces) :
            /\ Len(traces[t].propagation_path) <= 2
            /\ \A i \in 0..Len(traces[t].propagation_path) : i < Len(traces[t].impact_chain)
            /\ ~produced[p].diagrams[t].panicked
            /\ produced[p].diagrams[t].lines = ExpectedTraceLines(traces[t])

\* an overview page with the diagram of a handler's trace (two call sites,
\* eleven lines, D1 carrying the third impact score) and the diagram of a
\* trace without call site (three lines)
C29_Witness ==
    \E p \in OverviewPages :
        /\ \E t \in 1..Len(traces) :
            /\ Len(traces[t].propagation_path) = 2
            /\ Len(produced[p].diagrams[t].lines) = 11
            /\ produced[p].diagrams[t].lines[10] =
                [k |-> "node", a |-> "D1", b |-> "", label |-> "Impact", score |-> 4410]
        /\ \E t \in 1..Len(traces) :
            /\ traces[t].propagation_path = <<>>
            /\ Len(produced[p].diagrams[t].lines) = 3

----------------------------------------------------------------------------
\* C30

\* the rearrangements of the vulnerability list
Rearrangements ==
    LET n == Len(vulnerabilities)
    IN  { [i \in 1..n |-> vulnerabilities[q[i]]] :
            q \in { f \in [1..n -> 1..n] : \A i, j \in 1..n : f[i] = f[j] => i = j } }

\* what a hotspot says about its file, the recorded location set aside
Summary(h) ==
    [vulnerability_count |-> h.vulnerability_count, risk_score |-> h.risk_score,
     severity |-> h.severity]

\* C30: for every permutation of the vulnerability list the grouping gives
\* the same files, each with the same vulnerability_count, risk_score and
\* severity, and the sorted vector has the same risk scores position by
\* position; the location and the order among equal scores may differ.
C30_OrderIndependent ==
    spc = "done" =>
        \A vs \in Rearrangements :
            LET m == GroupHotspots(vs, min_hotspot_severity)
            IN  /\ DOMAIN m = DOMAIN hotspots
                /\ \A key \in DOMAIN m : Summary(m[key]) = Summary(hotspots[key])
                /\ \A v \in identify_security_hotspots(vs, min_hotspot_severity) :
                    /\ Len(v) = Len(hotspot_vec)
                    /\ \A i \in 1..Len(v) : v[i].risk_score = hotspot_vec[i].risk_score

\* a file with a Medium and a Critical finding in two functions: the other
\* order of the list records the other location and the same count, score
\* and severity
C30_Witness ==
    /\ spc = "done"
    /\ \E key \in DOMAIN hotspots :
        /\ hotspots[key].vulnerability_count = 2
        /\ hotspots[key].risk_score = 15
        /\ hotspots[key].severity = "Critical"
        /\ \E vs \in Rearrangements :
            LET m == GroupHotspots(vs, min_hotspot_severity)
            IN  /\ m[key].location # hotspots[key].location
                /\ Summary(m[key]) = Summary(hotspots[key])
====
